---------------------------- MODULE Spec2Model ----------------------------
(***************************************************************************)
(* Model of mht2html (src/src/mht2html.mjs): the multipart parser `parse`, *)
(* the URL resolver `absoluteURL`, the CSS reference rewriter              *)
(* `replaceReferences`, `convertAssetToDataURI` and the tree rewriter      *)
(* `convert`.                                                              *)
(*                                                                         *)
(* A JavaScript string is modelled as a sequence of symbols.  A symbol is  *)
(* either one character ("\n", "/", "=", ...) or an atomic token that      *)
(* stands for a run of characters none of the algorithms looks into        *)
(* ("Content-Type", "text/html", ...).  Positions are 0-based as in the    *)
(* source: the character s[k] of the source is s[k + 1] here.              *)
(***************************************************************************)
EXTENDS Integers, Sequences, FiniteSets, TLC

VARIABLES
    doc,        \* the archive handed to convert, as lines (what mhtml spells)
    mhtml,      \* parse: the input string
    enc,        \* parse: the byte-to-text decoder name of the options
    state,      \* parse: the state of the FSM
    i,          \* parse: the input cursor
    l,          \* parse: the line counter
    key,        \* parse: the header key seen last (shared by all header maps)
    headers,    \* parse: the document header map
    content,    \* parse: the header map of the part being read
    media,      \* parse: Content-Location -> asset
    frames,     \* parse: Content-ID -> asset
    assets,     \* the asset objects created so far; a reference is an index
    asset,      \* parse: the asset being filled (0 before the first part)
    index,      \* parse: the location of the index document
    boundary,   \* parse: the boundary token
    encoding,   \* parse: the transfer encoding of the part being read
    outcome,    \* parse: running, returned or thrown (with the message)
    call,       \* the function under evaluation and its arguments
    ret,        \* its returned value or error, once it has ended
    dom,        \* convert: the DOM nodes created so far; a node is an index
    calls       \* convert: the activations of convert, the innermost last

parseVars == <<doc, mhtml, enc, state, i, l, key, headers, content, media,
               frames, assets, asset, index, boundary, encoding, outcome>>
callVars  == <<call, ret>>
convVars  == <<dom, calls>>

vars == <<parseVars, callVars, convVars>>

-----------------------------------------------------------------------------
(* String primitives of the host language, over symbol sequences.           *)

Min(a, b) == IF a < b THEN a ELSE b
Max(a, b) == IF a > b THEN a ELSE b

\* String.prototype.substring(a, b): clamps to [0, length] and swaps.
Substring(s, a, b) ==
    LET ca == Max(0, Min(a, Len(s)))
        cb == Max(0, Min(b, Len(s)))
        lo == Min(ca, cb)
        hi == Max(ca, cb)
    IN  SubSeq(s, lo + 1, hi)

\* s.startsWith(pat, k)
MatchAt(s, pat, k) ==
    /\ k >= 0
    /\ k + Len(pat) <= Len(s)
    /\ \A n \in 1..Len(pat) : s[k + n] = pat[n]

\* String.prototype.indexOf(pat, from): -1 when there is no occurrence.
IndexOf(s, pat, from) ==
    LET hits == {k \in Max(0, from)..(Len(s) - Len(pat)) : MatchAt(s, pat, k)}
    IN  IF hits = {} THEN -1 ELSE CHOOSE k \in hits : \A m \in hits : k <= m

\* String.prototype.includes(pat)
Includes(s, pat) == IndexOf(s, pat, 0) > -1

\* String.prototype.endsWith(pat)
EndsWith(s, pat) == Len(s) >= Len(pat) /\ MatchAt(s, pat, Len(s) - Len(pat))

\* The characters matched by /\s/ and removed by String.prototype.trim().
WhiteSpace == {" ", "\t", "\n", "\r"}

RECURSIVE TrimStart(_)
TrimStart(s) ==
    IF s # <<>> /\ Head(s) \in WhiteSpace THEN TrimStart(Tail(s)) ELSE s

RECURSIVE TrimEnd(_)
TrimEnd(s) ==
    IF s # <<>> /\ s[Len(s)] \in WhiteSpace
    THEN TrimEnd(SubSeq(s, 1, Len(s) - 1)) ELSE s

\* String.prototype.trim()
Trim(s) == TrimEnd(TrimStart(s))

\* String.prototype.split(sep) for a one-symbol separator: "" gives [""].
RECURSIVE Split(_, _)
Split(s, sep) ==
    LET k == IndexOf(s, <<sep>>, 0)
    IN  IF k = -1 THEN <<s>>
        ELSE <<SubSeq(s, 1, k)>> \o Split(SubSeq(s, k + 2, Len(s)), sep)

\* Array.prototype.join(sep)
RECURSIVE Join(_, _)
Join(segs, sep) ==
    IF segs = <<>> THEN <<>>
    ELSE IF Len(segs) = 1 THEN segs[1]
    ELSE segs[1] \o <<sep>> \o Join(Tail(segs), sep)

\* s.replace(/c/g, '') for a set of one-symbol patterns.
RECURSIVE RemoveAll(_, _)
RemoveAll(s, cs) ==
    IF s = <<>> THEN <<>>
    ELSE IF Head(s) \in cs THEN RemoveAll(Tail(s), cs)
    ELSE <<Head(s)>> \o RemoveAll(Tail(s), cs)

\* The concatenation of a sequence of strings.
RECURSIVE Flatten(_)
Flatten(chunks) ==
    LET n == Len(chunks)
    IN  IF n = 0 THEN <<>>
        ELSE IF n = 1 THEN chunks[1]
        ELSE Flatten(SubSeq(chunks, 1, n \div 2))
                 \o Flatten(SubSeq(chunks, n \div 2 + 1, n))

\* Array.prototype.pop() as the remaining array: a no-op on [].
Pop(stack) == IF stack = <<>> THEN <<>> ELSE SubSeq(stack, 1, Len(stack) - 1)

-----------------------------------------------------------------------------
(* JavaScript values: an optional value is <<>> (undefined) or <<v>>.       *)

Undefined  == <<>>
Some(v)    == <<v>>
Defined(o) == o # <<>>
Val(o)     == o[1]

\* obj[k] of a plain object used as a map: undefined when k is not a key.
Get(obj, k) == IF k \in DOMAIN obj THEN Some(obj[k]) ELSE Undefined

\* obj[k] = v
Put(obj, k, v) == [x \in DOMAIN obj \cup {k} |-> IF x = k THEN v ELSE obj[x]]

EmptyObject == [x \in {} |-> <<>>]

\* mhtml[k]: undefined outside the string.
CharAt(s, k) == IF k >= 0 /\ k < Len(s) THEN s[k + 1] ELSE "undefined"

-----------------------------------------------------------------------------
(* decodeQuotedPrintable                                                    *)

LineTerminators == {"\n", "\r"}

HexDigits == {"0", "1", "2", "3", "4", "5", "6", "7", "8", "9",
              "a", "b", "c", "d", "e", "f", "A", "B", "C", "D", "E", "F"}

\* .replace(/[\t\x20]$/gm, ''): a space or tab is removed when the end of
\* the input or a line terminator follows it directly.
RECURSIVE StripTrailingWs(_)
StripTrailingWs(s) ==
    IF s = <<>> THEN <<>>
    ELSE IF /\ Head(s) \in {"\t", " "}
            /\ (Len(s) = 1 \/ s[2] \in LineTerminators)
         THEN StripTrailingWs(Tail(s))
         ELSE <<Head(s)>> \o StripTrailingWs(Tail(s))

\* .replace(/=(?:\r\n?|\n|$)/g, ''): '=' and the line break after it.
RECURSIVE RemoveSoftBreaks(_)
RemoveSoftBreaks(s) ==
    IF s = <<>> THEN <<>>
    ELSE IF Head(s) = "=" /\ Len(s) = 1 THEN <<>>
    ELSE IF Head(s) = "=" /\ s[2] = "\r" /\ Len(s) >= 3 /\ CharAt(s, 2) = "\n"
         THEN RemoveSoftBreaks(SubSeq(s, 4, Len(s)))
    ELSE IF Head(s) = "=" /\ s[2] \in {"\r", "\n"}
         THEN RemoveSoftBreaks(SubSeq(s, 3, Len(s)))
    ELSE <<Head(s)>> \o RemoveSoftBreaks(Tail(s))

\* An escape =XX starts at the head of s.
EscapeAt(s) ==
    Len(s) >= 3 /\ s[1] = "=" /\ s[2] \in HexDigits /\ s[3] \in HexDigits

\* The number of adjacent =XX groups at the head of s: /(=[a-fA-F0-9]{2}){1,}/
RECURSIVE RunLength(_)
RunLength(s) ==
    IF EscapeAt(s) THEN 1 + RunLength(SubSeq(s, 4, Len(s))) ELSE 0

\* parseInt(hex, 16) of the n groups at the head of s, as upper-case pairs.
UpperHex(h) ==
    CASE h = "a" -> "A" [] h = "b" -> "B" [] h = "c" -> "C"
      [] h = "d" -> "D" [] h = "e" -> "E" [] h = "f" -> "F"
      [] OTHER -> h

RunBytes(s, n) == [k \in 1..n |-> <<UpperHex(s[3 * k - 1]), UpperHex(s[3 * k])>>]

\* The bytes the model's inputs can spell, and what TextDecoder makes of
\* them.  0x41 is 'A'; 0xC3 0xA9 is U+00E9 in UTF-8 and U+8305 in GBK.
ByteA  == <<"4", "1">>
ByteC3 == <<"C", "3">>
ByteA9 == <<"A", "9">>

\* new TextDecoder('utf-8').decode: a malformed byte gives U+FFFD.
RECURSIVE Utf8Decode(_)
Utf8Decode(bytes) ==
    IF bytes = <<>> THEN <<>>
    ELSE IF Head(bytes) = ByteA THEN <<"A">> \o Utf8Decode(Tail(bytes))
    ELSE IF Head(bytes) = ByteC3 /\ Len(bytes) >= 2 /\ bytes[2] = ByteA9
         THEN <<"U+00E9">> \o Utf8Decode(SubSeq(bytes, 3, Len(bytes)))
    ELSE <<"U+FFFD">> \o Utf8Decode(Tail(bytes))

\* new TextDecoder('gbk').decode: 0xC3 and 0xA9 are lead bytes, every byte
\* of the model is a valid trail byte, a lead byte at the end is malformed.
GbkPair(lead, trail) ==
    CASE lead = ByteC3 /\ trail = ByteA9 -> "U+8305"
      [] lead = ByteC3 /\ trail = ByteC3 -> "gbk:C3C3"
      [] lead = ByteC3 /\ trail = ByteA  -> "gbk:C341"
      [] lead = ByteA9 /\ trail = ByteA9 -> "gbk:A9A9"
      [] lead = ByteA9 /\ trail = ByteC3 -> "gbk:A9C3"
      [] lead = ByteA9 /\ trail = ByteA  -> "gbk:A941"

RECURSIVE GbkDecode(_)
GbkDecode(bytes) ==
    IF bytes = <<>> THEN <<>>
    ELSE IF Head(bytes) = ByteA THEN <<"A">> \o GbkDecode(Tail(bytes))
    ELSE IF Len(bytes) >= 2
         THEN <<GbkPair(bytes[1], bytes[2])>>
                  \o GbkDecode(SubSeq(bytes, 3, Len(bytes)))
    ELSE <<"U+FFFD">>

\* const decoder = enc.toUpperCase() === 'GBK' ? gbkDecoder : utf8Decoder
IsGbk(charset) == charset \in {"gbk", "GBK"}

Decode(bytes, charset) == IF IsGbk(charset) THEN GbkDecode(bytes) ELSE Utf8Decode(bytes)

\* .replace(/(=[a-fA-F0-9]{2}){1,}/g, ...): each maximal run is decoded as
\* one byte sequence.
RECURSIVE DecodeRuns(_, _)
DecodeRuns(s, charset) ==
    IF s = <<>> THEN <<>>
    ELSE LET n == RunLength(s)
         IN  IF n > 0
             THEN Decode(RunBytes(s, n), charset)
                      \o DecodeRuns(SubSeq(s, 3 * n + 1, Len(s)), charset)
             ELSE <<Head(s)>> \o DecodeRuns(Tail(s), charset)

decodeQuotedPrintable(input, charset) ==
    DecodeRuns(RemoveSoftBreaks(StripTrailingWs(input)), charset)

-----------------------------------------------------------------------------
(* parse: the line readers and the header splitter of its closure.          *)

UnexpectedEOF == "Unexpected EOF"

\* trim(): skips white space from position k; the result is the new <<i, l>>
\* or <<>> when the assertion i < mhtml.length - 1 fails.
RECURSIVE trim(_, _, _)
trim(s, k, ln) ==
    IF ~(k < Len(s) - 1) THEN <<>>
    ELSE IF CharAt(s, k) \in WhiteSpace
         THEN trim(s, k + 1, IF CharAt(s, k + 1) = "\n" THEN ln + 1 ELSE ln)
         ELSE <<k, ln>>

\* The while loop of getLine for the encodings other than quoted-printable:
\* the position of the next "\n" at or after k, or -1 when the assertion
\* fails first.
RECURSIVE ScanLine(_, _)
ScanLine(s, k) ==
    IF CharAt(s, k) = "\n" THEN k
    ELSE IF k < Len(s) - 1 THEN ScanLine(s, k + 1)
    ELSE -1

\* A reader for which '=' before the line terminator does not continue the
\* line.
RECURSIVE ScanQuotedPrintable_noJoin(_, _, _, _)
ScanQuotedPrintable_noJoin(s, k, ln, line) ==
    LET k1    == k + 1
        read  == Append(line, CharAt(s, k1))
        line1 == IF CharAt(s, k1) = "\r"
                 THEN SubSeq(read, 1, Len(read) - 1) ELSE read
    IN  IF ~(k1 < Len(s) - 1) THEN <<>>
        ELSE IF EndsWith(line1, <<"\n">>) THEN <<line1, k1, ln + 1>>
        ELSE ScanQuotedPrintable_noJoin(s, k1, ln, line1)

\* The while (true) loop of getLine for quoted-printable: <<line, i, l>> at
\* the break, or <<>> when the assertion fails.
RECURSIVE ScanQuotedPrintable(_, _, _, _)
ScanQuotedPrintable(s, k, ln, line) ==
    LET k1    == k + 1
        read  == Append(line, CharAt(s, k1))
        line1 == IF CharAt(s, k1) = "\r"
                 THEN SubSeq(read, 1, Len(read) - 1) ELSE read
    IN  IF ~(k1 < Len(s) - 1) THEN <<>>
        ELSE IF EndsWith(line1, <<"=", "\n">>)
             THEN ScanQuotedPrintable(s, k1, ln + 1,
                                      SubSeq(line1, 1, Len(line1) - 2))
        ELSE IF EndsWith(line1, <<"\n">>) THEN <<line1, k1, ln + 1>>
        ELSE ScanQuotedPrintable(s, k1, ln, line1)

\* A reader that leaves the cursor on the line terminator of the encodings
\* other than quoted-printable.
getLine_noSkip(s, k, ln, lineEncoding, decoder) ==
    IF lineEncoding = Some(<<"quoted-printable">>)
    THEN LET r == ScanQuotedPrintable(s, k, ln, <<CharAt(s, k)>>)
         IN  IF r = <<>> THEN <<>>
             ELSE <<decodeQuotedPrintable(r[1], decoder), r[2] + 1, r[3]>>
    ELSE LET n == ScanLine(s, k)
         IN  IF n = -1 THEN <<>>
             ELSE LET line == Substring(s, k, n)
                  IN  <<IF lineEncoding = Some(<<"base64">>)
                        THEN Trim(line) ELSE line,
                        n, ln + 1>>

\* getLine(lineEncoding): <<line, i, l>>, or <<>> for 'Unexpected EOF'.
\* lineEncoding is Undefined for the header readers.
getLine(s, k, ln, lineEncoding, decoder) ==
    IF lineEncoding = Some(<<"quoted-printable">>)
    THEN LET r == ScanQuotedPrintable(s, k, ln, <<CharAt(s, k)>>)
         IN  IF r = <<>> THEN <<>>
             ELSE <<decodeQuotedPrintable(r[1], decoder), r[2] + 1, r[3]>>
    ELSE LET n == ScanLine(s, k)
         IN  IF n = -1 THEN <<>>
             ELSE LET line == Substring(s, k, n + 1)
                  IN  <<IF lineEncoding = Some(<<"base64">>)
                        THEN Trim(line) ELSE line,
                        n + 1, ln + 1>>

\* splitHeaders(line, obj): <<key, obj>> after the call, or <<>> when the
\* assertion on key fails.  k is the closure variable key (optional).
splitHeaders(line, obj, k) ==
    LET m == IndexOf(line, <<":">>, 0)
    IN  IF m > -1
        THEN LET newKey == Trim(Substring(line, 0, m))
             IN  <<Some(newKey),
                   Put(obj, newKey, Trim(Substring(line, m + 1, Len(line))))>>
        ELSE IF ~Defined(k) THEN <<>>
        ELSE LET old == IF Val(k) \in DOMAIN obj
                        THEN obj[Val(k)] ELSE <<"undefined">>
             IN  <<k, Put(obj, Val(k), old \o Trim(line))>>

\* next != 0 && next != '\n': the loose comparison with 0 converts the line
\* to a number, which is 0 for white space only and for "0".
IsHeaderLine(next) == Trim(next) \notin {<<>>, <<"0">>} /\ next # <<"\n">>

\* headers['Content-Type'].match(/boundary=(.*)/m): the capture (optional).
RECURSIVE UpToLineEnd(_)
UpToLineEnd(s) ==
    IF s = <<>> \/ Head(s) \in LineTerminators THEN <<>>
    ELSE <<Head(s)>> \o UpToLineEnd(Tail(s))

MatchBoundary(value) ==
    LET k == IndexOf(value, <<"boundary=">>, 0)
    IN  IF k = -1 THEN Undefined
        ELSE Some(UpToLineEnd(SubSeq(value, k + 2, Len(value))))

ContentType     == <<"Content-Type">>
ContentEncoding == <<"Content-Transfer-Encoding">>
ContentID       == <<"Content-ID">>
ContentLocation == <<"Content-Location">>
TextHtml        == <<"text/html">>
TextCss         == <<"text/css">>

-----------------------------------------------------------------------------
(* parse: the finite-state machine.                                         *)

MHTML_HEADERS == 0
MTHML_CONTENT == 1
MHTML_DATA    == 2
MHTML_END     == 3

\* parse is reached only through convert, which passes { enc }: htmlOnly
\* keeps its default.
htmlOnly == FALSE

Running       == [kind |-> "running", error |-> ""]
Returned      == [kind |-> "returned", error |-> ""]
ReturnedHtml  == [kind |-> "returned html", error |-> ""]
Thrown(error) == [kind |-> "thrown", error |-> error]

\* The closure of parse as one record.
Closure ==
    [state |-> state, i |-> i, l |-> l, key |-> key, headers |-> headers,
     content |-> content, media |-> media, frames |-> frames,
     assets |-> assets, asset |-> asset, index |-> index,
     boundary |-> boundary, encoding |-> encoding, outcome |-> outcome]

\* assert(false, error): the call of parse is abandoned.
Throw(c, error) == [c EXCEPT !.outcome = Thrown(error)]

\* decodeURIComponent(escape(data)) inside try/catch: the characters up to
\* U+00FF are taken as bytes of UTF-8; if they are not, or if a character
\* above U+00FF is present (escape writes %uXXXX for it), the call throws
\* and data is kept.
WideChars   == {"U+8305", "U+FFFD", "U+9A69", "gbk:C3C3", "gbk:C341",
                "gbk:A9A9", "gbk:A9C3", "gbk:A941"}
Latin1Chars == {"U+00C3", "U+00A9", "U+00E9"}

\* <<decoded>> or <<>> when the bytes are not UTF-8.
RECURSIVE Utf8FromLatin1(_)
Utf8FromLatin1(s) ==
    IF s = <<>> THEN Some(<<>>)
    ELSE LET more(ch, n) ==
                 LET rest == Utf8FromLatin1(SubSeq(s, n + 1, Len(s)))
                 IN  IF Defined(rest) THEN Some(<<ch>> \o Val(rest))
                     ELSE Undefined
         IN  IF Head(s) \in WideChars THEN Undefined
             ELSE IF Head(s) \notin Latin1Chars THEN more(Head(s), 1)
             ELSE IF Head(s) = "U+00C3" /\ Len(s) >= 2 /\ s[2] = "U+00A9"
                  THEN more("U+00E9", 2)
             ELSE IF /\ Head(s) = "U+00E9" /\ Len(s) >= 3
                     /\ s[2] = "U+00A9" /\ s[3] = "U+00A9"
                  THEN more("U+9A69", 3)
             ELSE Undefined

DecodeUnicode(data) ==
    LET r == Utf8FromLatin1(data)
    IN  IF Defined(r) THEN Val(r) ELSE data

\* case MHTML_FSM.MHTML_HEADERS
HeadersCase(s, decoder, c) ==
    LET r == getLine(s, c.i, c.l, Undefined, decoder)
    IN  IF r = <<>> THEN Throw(c, UnexpectedEOF)
        ELSE IF IsHeaderLine(r[1])
        THEN LET h == splitHeaders(r[1], c.headers, c.key)
             IN  IF h = <<>> THEN Throw(c, "Missing MHTML headers")
                 ELSE [c EXCEPT !.key = h[1], !.headers = h[2],
                                !.i = r[2], !.l = r[3]]
        ELSE IF ContentType \notin DOMAIN c.headers
             THEN Throw(c, "Missing document content type")
        ELSE LET matches == MatchBoundary(c.headers[ContentType])
             IN  IF ~Defined(matches)
                 THEN Throw(c, "Missing boundary from document headers")
                 ELSE LET b  == RemoveAll(Val(matches), {"\""})
                          t  == trim(s, r[2], r[3])
                          r2 == getLine(s, t[1], t[2], Undefined, decoder)
                      IN  IF t = <<>> THEN Throw(c, UnexpectedEOF)
                          ELSE IF r2 = <<>> THEN Throw(c, UnexpectedEOF)
                          ELSE IF ~Includes(r2[1], b)
                               THEN Throw(c, "Expected boundary")
                          ELSE [c EXCEPT !.boundary = b,
                                         !.content = EmptyObject,
                                         !.state = MTHML_CONTENT,
                                         !.i = r2[2], !.l = r2[3]]

\* A registration in which a later part replaces the earlier one.
RegisterMedia_lastWins(m, location, ref) ==
    IF Defined(location) THEN Put(m, Val(location), ref) ELSE m

\* Keep track of resources by location: the first part of a location stays.
\* (typeof media[location] === 'undefined' on a plain object.)
RegisterMedia(m, location, ref) ==
    IF Defined(location) /\ Val(location) \notin DOMAIN m
    THEN Put(m, Val(location), ref) ELSE m

\* A registration in which the first part of an id stays.
RegisterFrame_firstWins(f, id, ref) ==
    IF Defined(id) /\ Val(id) \notin DOMAIN f THEN Put(f, Val(id), ref) ELSE f

\* Keep track of frames by ID.
RegisterFrame(f, id, ref) == IF Defined(id) THEN Put(f, Val(id), ref) ELSE f

\* An index check that accepts a part of any type.
IndexFound_anyType(location, type) == Defined(location)

\* Assume the first boundary to be the document.
IndexFound(location, type) == Defined(location) /\ type = Some(TextHtml)

\* case MHTML_FSM.MTHML_CONTENT
ContentCase(s, decoder, c) ==
    LET r == getLine(s, c.i, c.l, Undefined, decoder)
    IN  IF r = <<>> THEN Throw(c, UnexpectedEOF)
        ELSE IF IsHeaderLine(r[1])
        THEN LET h == splitHeaders(r[1], c.content, c.key)
             IN  IF h = <<>> THEN Throw(c, "Missing MHTML headers")
                 ELSE [c EXCEPT !.key = h[1], !.content = h[2],
                                !.i = r[2], !.l = r[3]]
        ELSE LET partEncoding == Get(c.content, ContentEncoding)
                 type      == Get(c.content, ContentType)
                 id        == Get(c.content, ContentID)
                 location  == Get(c.content, ContentLocation)
                 newIndex  == IF ~Defined(c.index) THEN location ELSE c.index
                 ref       == Len(c.assets) + 1
                 t         == trim(s, r[2], r[3])
             IN  IF ~Defined(c.index) /\ ~IndexFound(location, type)
                 THEN Throw(c, "Index not found")
                 ELSE IF ~(Defined(id) \/ Defined(location))
                 THEN Throw(c, "ID or location header not provided")
                 ELSE IF ~Defined(partEncoding)
                 THEN Throw(c, "Content-Transfer-Encoding not provided")
                 ELSE IF ~Defined(type)
                 THEN Throw(c, "Content-Type not provided")
                 ELSE IF t = <<>> THEN Throw(c, UnexpectedEOF)
                 ELSE [c EXCEPT
                         !.encoding = partEncoding,
                         !.index    = newIndex,
                         !.assets   = Append(c.assets,
                                        [encoding |-> Val(partEncoding),
                                         type |-> Val(type),
                                         data |-> <<>>,
                                         id |-> id]),
                         !.asset    = ref,
                         !.frames   = RegisterFrame(c.frames, id, ref),
                         !.media    = RegisterMedia(c.media, location, ref),
                         !.content  = EmptyObject,
                         !.state    = MHTML_DATA,
                         !.i = t[1], !.l = t[2]]

\* The while loop of MHTML_DATA from the line that starts at k: <<data, i,
\* l>> once a line includes the boundary, <<>> when getLine throws.
RECURSIVE DataLoop(_, _, _, _, _, _, _)
DataLoop(s, decoder, b, lineEncoding, k, ln, data) ==
    LET r == getLine(s, k, ln, lineEncoding, decoder)
    IN  IF r = <<>> THEN <<>>
        ELSE IF Includes(r[1], b) THEN <<data, r[2], r[3]>>
        ELSE DataLoop(s, decoder, b, lineEncoding, r[2], r[3], data \o r[1])

\* Set the finishing state if there are no more characters.
AfterData(s, k) == IF k >= Len(s) - 1 THEN MHTML_END ELSE MTHML_CONTENT

\* case MHTML_FSM.MHTML_DATA, and the return of parse when the loop ends.
DataCase(s, decoder, c) ==
    LET d == DataLoop(s, decoder, c.boundary, c.encoding, c.i, c.l,
                      c.assets[c.asset].data)
    IN  IF d = <<>> THEN Throw(c, UnexpectedEOF)
        ELSE LET filled == [c.assets EXCEPT
                               ![c.asset].data = DecodeUnicode(d[1])]
                 after  == AfterData(s, d[2])
             IN  IF htmlOnly = TRUE /\ Defined(c.index)
                 THEN [c EXCEPT !.assets = filled, !.i = d[2], !.l = d[3],
                                !.outcome = ReturnedHtml]
                 ELSE [c EXCEPT !.assets = filled, !.i = d[2], !.l = d[3],
                                !.state = after,
                                !.outcome = IF after = MHTML_END
                                            THEN Returned ELSE Running]

-----------------------------------------------------------------------------
(* absoluteURL                                                              *)

HTTP  == <<"http:", "/", "/">>
HTTPS == <<"https:", "/", "/">>

\* The for loop of absoluteURL over parts[k..], on the stack so far.
RECURSIVE ApplyParts(_, _, _)
ApplyParts(stack, parts, k) ==
    IF k > Len(parts) THEN stack
    ELSE IF parts[k] = <<".">> THEN ApplyParts(stack, parts, k + 1)
    ELSE IF parts[k] = <<".", ".">> THEN ApplyParts(Pop(stack), parts, k + 1)
    ELSE ApplyParts(Append(stack, parts[k]), parts, k + 1)

\* A resolver that forgets to drop the file part of base.
absoluteURL_keepFile(base, relative) ==
    IF IndexOf(relative, HTTP, 0) = 0 \/ IndexOf(relative, HTTPS, 0) = 0
    THEN relative
    ELSE Join(ApplyParts(Split(base, "/"), Split(relative, "/"), 1), "/")

absoluteURL(base, relative) ==
    IF IndexOf(relative, HTTP, 0) = 0 \/ IndexOf(relative, HTTPS, 0) = 0
    THEN relative
    ELSE Join(ApplyParts(Pop(Split(base, "/")), Split(relative, "/"), 1), "/")

-----------------------------------------------------------------------------
(* replaceReferences                                                        *)

CSS_URL_RULE == <<"url(">>

\* encodeURIComponent throws a URIError on a lone surrogate.
LoneSurrogates == {"U+D800"}

\* self.btoa(self.encodeURIComponent(x)) symbol by symbol.  encodeURIComponent
\* leaves ( ) ' untouched and its output is ASCII, so btoa does not throw;
\* the result is over the base64 alphabet, which has no ( ) ' " / : .
BtoaSymbol(c) ==
    CASE c = "url(" -> "dXJsKA"
      [] c = ")" -> "KQ"
      [] c = "'" -> "Jw"
      [] c = "\"" -> "JTIy"
      [] c = "/" -> "JTJG"
      [] c = "." -> "Lg"
      [] c = "\n" -> "JTBB"
      [] c = "b" -> "Yg"
      [] c = "x" -> "eA"
      [] c = "A" -> "QQ"
      [] c = "img.png" -> "aW1nLnBuZw"
      [] c = "s.css" -> "cy5jc3M"
      [] c = "data:" -> "ZGF0YSUzQQ"
      [] c = ";base64," -> "JTNCYmFzZTY0JTJD"
      [] c = "image/png" -> "aW1hZ2UlMkZwbmc"
      [] c = "text/css" -> "dGV4dCUyRmNzcw"
      [] c = "text/html" -> "dGV4dCUyRmh0bWw"
      [] c = "QUJD" -> "UVVKRA"
      [] c = "REVG" -> "UkVWRw"
      [] c = "U+00E9" -> "JUMzJUE5"
      [] OTHER -> "YjY0"

\* <<payload>>, or <<>> when encodeURIComponent throws.
BtoaEncodeURIComponent(data) ==
    IF \E n \in 1..Len(data) : data[n] \in LoneSurrogates THEN Undefined
    ELSE Some([n \in 1..Len(data) |-> BtoaSymbol(data[n])])

\* The template literal `'data:${type};base64,${...}'` of an asset object:
\* <<embeddedAsset>>, or <<>> when building it throws.
EmbeddedAsset(a) ==
    LET payload == IF a.encoding = <<"base64">> THEN Some(a.data)
                   ELSE BtoaEncodeURIComponent(a.data)
    IN  IF ~Defined(payload) THEN Undefined
        ELSE Some(<<"'", "data:">> \o a.type \o <<";base64,">>
                      \o Val(payload) \o <<"'">>)

\* The depth of nested calls at which the engine throws RangeError
\* ('Maximum call stack size exceeded').
MaxCallDepth == 3

RangeError == [asset |-> <<>>, assets |-> <<>>, overflow |-> TRUE]

\* The reference that starts at position p of text.
ReferenceAt(text, p) == Substring(text, p, IndexOf(text, <<")">>, p))

\* The loop condition of replaceReferences.
Found(j) == j > 0

\* A variant that also stores the data URI of any other entry in the entry.
StoredBack_memoAll(h, ref, inner) ==
    IF h[ref].type = TextCss
    THEN [inner.assets EXCEPT ![ref].data = inner.asset]
    ELSE [h EXCEPT ![ref].data = Val(EmbeddedAsset(h[ref]))]

\* media[path].data = replaceReferences(...) for a text/css entry: the asset
\* objects after the rewritten body inner is stored in entry ref.
StoredBack(h, ref, inner) ==
    IF h[ref].type = TextCss
    THEN [inner.assets EXCEPT ![ref].data = inner.asset]
    ELSE h

\* replaceReferences(media, base, asset) from the evaluation of the loop
\* condition with i = k.  m is media (location -> reference), h the asset
\* objects, depth the number of calls still possible.  The result is the
\* returned string and the asset objects after the call.
RECURSIVE ReplaceLoop(_, _, _, _, _, _)
ReplaceLoop(m, h, base, text, k, depth) ==
    LET j == IndexOf(text, CSS_URL_RULE, k)
        p == j + Len(CSS_URL_RULE)
        reference == ReferenceAt(text, p)
        path == absoluteURL(base, RemoveAll(reference, {"\"", "'"}))
    IN  IF ~Found(j) THEN [asset |-> text, assets |-> h, overflow |-> FALSE]
        ELSE IF path \notin DOMAIN m
        THEN ReplaceLoop(m, h, base, text, p + Len(reference), depth)
        ELSE LET ref   == m[path]
                 isCss == h[ref].type = TextCss
                 inner == IF depth = 0 THEN RangeError
                          ELSE ReplaceLoop(m, h, base, h[ref].data, 0, depth - 1)
                 h1    == StoredBack(h, ref, inner)
                 embed == EmbeddedAsset(h1[ref])
                 text1 == IF Defined(embed)
                          THEN Substring(text, 0, p) \o Val(embed)
                                   \o Substring(text, p + Len(reference), Len(text))
                          ELSE text
             IN  IF isCss /\ inner.overflow THEN RangeError
                 ELSE ReplaceLoop(m, h1, base, text1, p + Len(reference), depth)

replaceReferences(m, h, base, text) ==
    ReplaceLoop(m, h, base, text, 0, MaxCallDepth)

-----------------------------------------------------------------------------
(* convertAssetToDataURI                                                    *)

\* escape(): letters, digits and @ * _ + - . / are kept, a character up to
\* U+00FF becomes %XX and any other %uXXXX.
EscapeSymbol(c) ==
    CASE c = " " -> "%20"
      [] c = "\t" -> "%09"
      [] c = "\n" -> "%0A"
      [] c = "\r" -> "%0D"
      [] c = "=" -> "%3D"
      [] c = "'" -> "%27"
      [] c = "\"" -> "%22"
      [] c = ")" -> "%29"
      [] c = "url(" -> "url%28"
      [] c = "U+00E9" -> "%E9"
      [] c = "U+00C3" -> "%C3"
      [] c = "U+00A9" -> "%A9"
      [] c = "U+8305" -> "%u8305"
      [] c = "U+FFFD" -> "%uFFFD"
      [] c = "gbk:C3C3" -> "%u:C3C3"
      [] c = "gbk:C341" -> "%u:C341"
      [] c = "gbk:A9A9" -> "%u:A9A9"
      [] c = "gbk:A9C3" -> "%u:A9C3"
      [] c = "gbk:A941" -> "%u:A941"
      [] OTHER -> c

Escape(text) == [n \in 1..Len(text) |-> EscapeSymbol(text[n])]

\* The file neither defines nor imports Base64, and the host has no such
\* global: evaluating Base64.encode(...) throws a ReferenceError.
Base64Defined == FALSE

ReferenceError == [thrown |-> TRUE, value |-> <<"ReferenceError">>]

\* convertAssetToDataURI(asset, enc): the returned string, or the error
\* thrown.
convertAssetToDataURI(a, charset) ==
    IF a.encoding = <<"quoted-printable">>
    THEN [thrown |-> FALSE,
          value |-> <<"data:">> \o a.type \o <<";utf8,">>
                        \o Escape(decodeQuotedPrintable(a.data, charset))]
    ELSE IF a.encoding = <<"base64">>
    THEN [thrown |-> FALSE,
          value |-> <<"data:">> \o a.type \o <<";base64,">> \o a.data]
    ELSE IF ~Base64Defined THEN ReferenceError
    ELSE [thrown |-> FALSE,
          value |-> <<"data:">> \o a.type \o <<";base64,">>
                        \o [n \in 1..Len(a.data) |-> BtoaSymbol(a.data[n])]]

-----------------------------------------------------------------------------
(* The DOM of the host, as far as convert uses it.                          *)

\* A node: its kind, tag name, the attributes convert reads or writes (an
\* absent attribute is <<>>), the data of a text node and the child nodes.
BlankNode ==
    [nodeType |-> "element", tagName |-> "", href |-> Undefined,
     src |-> Undefined, media |-> Undefined, integrity |-> FALSE,
     target |-> Undefined, type |-> Undefined, cssText |-> Undefined,
     data |-> <<>>, childNodes |-> <<>>]

\* documentElem.createElement(tag), with children.
Element(tag, kids) == [BlankNode EXCEPT !.tagName = tag, !.childNodes = kids]

\* documentElem.createTextNode(data)
TextNode(data) == [BlankNode EXCEPT !.nodeType = "text", !.data = data]

Doctype == [BlankNode EXCEPT !.nodeType = "doctype"]

DocumentNode(kids) ==
    [BlankNode EXCEPT !.nodeType = "document", !.childNodes = kids]

\* Elements the serialisation writes without an end tag.
VoidElements == {"LINK", "IMG", "BASE"}

\* The lower-case tag name the serialisation writes.
LowerCase(tag) ==
    CASE tag = "HTML" -> "html"
      [] tag = "HEAD" -> "head"
      [] tag = "BODY" -> "body"
      [] tag = "LINK" -> "link"
      [] tag = "STYLE" -> "style"
      [] tag = "IMG" -> "img"
      [] tag = "IFRAME" -> "iframe"
      [] tag = "BASE" -> "base"
      [] tag = "DIV" -> "div"
      [] tag = "SPAN" -> "span"

Attribute(name, o) ==
    IF Defined(o) THEN <<" ", name, "=", "\"">> \o Val(o) \o <<"\"">>
    ELSE <<>>

\* The HTML text of a tree whose childNodes are trees (outerHTML).
RECURSIVE Html(_)
Html(t) ==
    LET kids == Flatten([n \in 1..Len(t.childNodes) |-> Html(t.childNodes[n])])
    IN  CASE t.nodeType = "document" -> kids
          [] t.nodeType = "doctype" -> <<"<!DOCTYPE html>">>
          [] t.nodeType = "text" -> t.data
          [] t.nodeType = "element" ->
               <<"<", LowerCase(t.tagName)>>
                   \o Attribute("href", t.href)
                   \o Attribute("src", t.src)
                   \o Attribute("media", t.media)
                   \o Attribute("integrity",
                                IF t.integrity THEN Some(<<"sha">>)
                                ELSE Undefined)
                   \o Attribute("target", t.target)
                   \o Attribute("type", t.type)
                   \o Attribute("style", t.cssText)
                   \o <<">">>
                   \o kids
                   \o (IF t.tagName \in VoidElements THEN <<>>
                       ELSE <<"</", LowerCase(t.tagName), ">">>)

\* Storing a tree in the node store d: the store and the node of the root.
RECURSIVE Alloc(_, _)
RECURSIVE AllocAll(_, _)
Alloc(d, t) ==
    LET r == AllocAll(d, t.childNodes)
    IN  [dom |-> Append(r.dom, [t EXCEPT !.childNodes = r.ids]),
         id |-> Len(r.dom) + 1]

AllocAll(d, ts) ==
    IF ts = <<>> THEN [dom |-> d, ids |-> <<>>]
    ELSE LET a == Alloc(d, Head(ts))
             b == AllocAll(a.dom, Tail(ts))
         IN  [dom |-> b.dom, ids |-> <<a.id>> \o b.ids]

\* The tree below node id of the store d.
RECURSIVE Tree(_, _)
Tree(d, id) ==
    [d[id] EXCEPT
        !.childNodes = [n \in 1..Len(d[id].childNodes) |->
                           Tree(d, d[id].childNodes[n])]]

\* document.documentElement: the first element child of the document node.
DocumentElement(d, root) ==
    LET kids == d[root].childNodes
        k == CHOOSE n \in 1..Len(kids) :
                 /\ d[kids[n]].nodeType = "element"
                 /\ \A j \in 1..(n - 1) : d[kids[j]].nodeType # "element"
    IN  kids[k]

\* child.innerHTML of an element whose children are text nodes.
InnerHTML(d, id) ==
    Flatten([n \in 1..Len(d[id].childNodes) |-> d[d[id].childNodes[n]].data])

\* child.style.cssText: '' without a style attribute.
CssText(node) == IF Defined(node.cssText) THEN Val(node.cssText) ELSE <<>>

\* encodeURIComponent: letters, digits and - _ . ! ~ * ' ( ) are kept, any
\* other character becomes the %XX of its UTF-8 bytes.
EncodeURIComponentSymbol(c) ==
    CASE c = "<" -> <<"%", "3C">>
      [] c = ">" -> <<"%", "3E">>
      [] c = "</" -> <<"%", "3C", "%", "2F">>
      [] c = "\"" -> <<"%", "22">>
      [] c = " " -> <<"%", "20">>
      [] c = "=" -> <<"%", "3D">>
      [] c = "/" -> <<"%", "2F">>
      [] c = ":" -> <<"%", "3A">>
      [] c = "%" -> <<"%", "25">>
      [] c = "cid:" -> <<"cid", "%", "3A">>
      [] c = "data:" -> <<"data", "%", "3A">>
      [] c = "background:" -> <<"background", "%", "3A">>
      [] c = ";base64," -> <<"%", "3B", "base64", "%", "2C">>
      [] c = ";utf8," -> <<"%", "3B", "utf8", "%", "2C">>
      [] c = "image/png" -> <<"image", "%", "2F", "png">>
      [] c = "image/svg+xml" -> <<"image", "%", "2F", "svg", "%", "2B", "xml">>
      [] c = "%E9" -> <<"%", "25", "E9">>
      [] c = "%u8305" -> <<"%", "25", "u8305">>
      [] c = "text/css" -> <<"text", "%", "2F", "css">>
      [] c = "text/html" -> <<"text", "%", "2F", "html">>
      [] c = "data:text/html;charset=utf-8," ->
             <<"data", "%", "3A", "text", "%", "2F", "html", "%", "3B",
               "charset", "%", "3D", "utf-8", "%", "2C">>
      [] OTHER -> <<c>>

EncodeURIComponent(text) ==
    Flatten([n \in 1..Len(text) |-> EncodeURIComponentSymbol(text[n])])

-----------------------------------------------------------------------------
(* convert                                                                  *)

\* A property key made of an attribute value: getAttribute gives null for a
\* missing attribute, and null as a key is 'null'.
KeyOf(o) == IF Defined(o) THEN Val(o) ELSE <<"null">>

\* asset.type.includes('image'), for the content types of the archives.
IncludesImage(type) ==
    type \in {<<"image/png">>, <<"image/gif">>, <<"image/svg+xml">>}

\* `<${src.split('cid:')[1]}>`
FrameId(src0) ==
    LET segs == Split(src0, "cid:")
    IN  <<"<">> \o (IF Len(segs) >= 2 THEN segs[2] ELSE <<"undefined">>)
            \o <<">">>

DataTextHtml == <<"data:text/html;charset=utf-8,">>

InvalidIndex == "MHTML error: invalid index"
CallStackExceeded == "RangeError: Maximum call stack size exceeded"

-----------------------------------------------------------------------------
(* The archives given to parse: a prologue (document headers and opening    *)
(* boundary line), parts, and what follows the last part.                   *)

MaxParts == 2

Token == "B"

Header(name, value, eol) == name \o <<":", " ">> \o value \o eol

MultipartType == <<"multipart/related;", " ", "boundary=", "\"", Token, "\"">>

Prologues == {"plain", "folded", "subject", "no boundary", "no content type",
              "orphan first", "wrong opening"}
GoodPrologues == {"plain", "folded", "subject"}

PrologueLines(p, eol) ==
    LET open == eol \o <<"--", Token>> \o eol
    IN  CASE p = "plain" ->
               Header(ContentType, MultipartType, eol) \o open
          [] p = "folded" ->
               Header(ContentType, <<"multipart/related;">>, eol)
                   \o <<"\t", "boundary=", "\"", Token, "\"">> \o eol \o open
          [] p = "subject" ->
               Header(ContentType, MultipartType, eol)
                   \o Header(<<"Subject">>, <<"x">>, eol) \o open
          [] p = "no boundary" ->
               Header(ContentType, <<"multipart/related;">>, eol) \o open
          [] p = "no content type" ->
               Header(<<"Subject">>, <<"x">>, eol) \o open
          [] p = "orphan first" ->
               <<"orphan">> \o eol
                   \o Header(ContentType, MultipartType, eol) \o open
          [] p = "wrong opening" ->
               Header(ContentType, MultipartType, eol)
                   \o eol \o <<"--", "X">> \o eol

\* The bracketed Content-ID value of an id.
IdKey(id) == <<"<", id, ">">>

\* A part: its header values ("" when the header line is absent), whether
\* a line without ':' precedes its header lines, and its body by encoding.
Shape(type, enc0, id, loc, orphan) ==
    [type |-> type, enc |-> enc0, id |-> id, loc |-> loc, orphan |-> orphan]

WellFormedShapes ==
    {Shape("text/html", "base64", "", "a", FALSE),
     Shape("text/html", "base64", "i1", "a", FALSE),
     Shape("text/html", "quoted-printable", "", "a", FALSE),
     Shape("text/css", "base64", "", "a", FALSE),
     Shape("text/css", "base64", "i1", "", FALSE),
     Shape("text/css", "quoted-printable", "i1", "b", FALSE),
     Shape("text/css", "binary", "", "b", FALSE)}

DefectShapes ==
    {Shape("", "base64", "", "a", FALSE),
     Shape("text/html", "", "", "a", FALSE),
     Shape("text/html", "base64", "", "", FALSE),
     Shape("text/html", "base64", "", "a", TRUE),
     Shape("text/css", "", "", "b", TRUE)}

PartShapes == WellFormedShapes \cup DefectShapes

BodyLines(enc0, eol) ==
    CASE enc0 = "base64" -> <<"QUJD", " ">> \o eol \o <<"REVG">> \o eol
      [] enc0 = "quoted-printable" ->
             <<"x", "=", "C", "3", "=", "A", "9">> \o eol
                 \o <<"y", "=">> \o eol \o <<"z">> \o eol
      [] enc0 = "binary" -> <<"U+00C3", "U+00A9">> \o eol
      [] OTHER -> <<"d">> \o eol

\* The header lines of a part, Content-Transfer-Encoding last, the blank
\* line and the body.
PartLines(sh, eol) ==
    (IF sh.orphan THEN <<"orphan">> \o eol ELSE <<>>)
    \o (IF sh.type # "" THEN Header(ContentType, <<sh.type>>, eol) ELSE <<>>)
    \o (IF sh.loc # "" THEN Header(ContentLocation, <<sh.loc>>, eol) ELSE <<>>)
    \o (IF sh.id # "" THEN Header(ContentID, IdKey(sh.id), eol) ELSE <<>>)
    \o (IF sh.enc # "" THEN Header(ContentEncoding, <<sh.enc>>, eol) ELSE <<>>)
    \o eol
    \o BodyLines(sh.enc, eol)

Endings == {"closed", "one more character", "blank lines", "unterminated",
            "open"}

\* The parts from number k on, each followed by a boundary line, and the
\* end of the input.
RECURSIVE PartsLines(_, _, _, _)
PartsLines(parts, k, eol, ending) ==
    IF k < Len(parts)
    THEN PartLines(parts[k], eol) \o <<"--", Token>> \o eol
             \o PartsLines(parts, k + 1, eol, ending)
    ELSE PartLines(parts[k], eol)
             \o CASE ending = "closed" -> <<"--", Token, "--">> \o eol
                  [] ending = "one more character" ->
                         <<"--", Token, "--">> \o eol \o <<"\n">>
                  [] ending = "blank lines" ->
                         <<"--", Token, "--">> \o eol \o <<"\n", "\n">>
                  [] ending = "unterminated" -> <<"--", Token, "--">>
                  [] ending = "open" -> <<>>

LF   == <<"\n">>
CRLF == <<"\r", "\n">>

Document(p, parts, ending, eol, decoder) ==
    [prologue |-> p, parts |-> parts, ending |-> ending, eol |-> eol,
     enc |-> decoder]

Render(d) ==
    PrologueLines(d.prologue, d.eol)
        \o PartsLines(d.parts, 1, d.eol, d.ending)

PartLists == UNION {[1..n -> PartShapes] : n \in 1..MaxParts}

Documents ==
    {Document("plain", ps, e, LF, "utf-8") : ps \in PartLists, e \in Endings}
    \cup {Document(p, ps, "closed", LF, "utf-8") :
             p \in GoodPrologues, ps \in PartLists}
    \cup {Document("plain", ps, "closed", eol, decoder) :
             ps \in PartLists, eol \in {LF, CRLF}, decoder \in {"utf-8", "gbk"}}
    \cup {Document(p, <<Shape("text/html", "base64", "", "a", FALSE)>>,
                   "closed", LF, "utf-8") : p \in Prologues}

-----------------------------------------------------------------------------
(* Specification Spec: convert(mhtml) on a string, up to the return of      *)
(* parse.                                                                   *)

NoCall == [fn |-> "none"]
NoRet  == [done |-> FALSE]

\* The variables of convert, idle.
ConvIdle == dom = <<>> /\ calls = <<>>

Init ==
    /\ doc \in Documents
    /\ mhtml = Render(doc)
    /\ enc = doc.enc
    /\ headers = EmptyObject
    /\ content = EmptyObject
    /\ media = EmptyObject
    /\ frames = EmptyObject
    /\ assets = <<>>
    /\ asset = 0
    /\ key = Undefined
    /\ index = Undefined
    /\ boundary = Undefined
    /\ encoding = Undefined
    /\ state = MHTML_HEADERS
    /\ i = 0
    /\ l = 0
    /\ outcome = Running
    /\ call = NoCall
    /\ ret = NoRet
    /\ ConvIdle

\* The assignment of a closure record to the variables of parse.
Becomes(c) ==
    /\ state' = c.state
    /\ i' = c.i
    /\ l' = c.l
    /\ key' = c.key
    /\ headers' = c.headers
    /\ content' = c.content
    /\ media' = c.media
    /\ frames' = c.frames
    /\ assets' = c.assets
    /\ asset' = c.asset
    /\ index' = c.index
    /\ boundary' = c.boundary
    /\ encoding' = c.encoding
    /\ outcome' = c.outcome
    /\ UNCHANGED <<doc, mhtml, enc, callVars, convVars>>

HeadersStep ==
    /\ outcome = Running
    /\ state = MHTML_HEADERS
    /\ Becomes(HeadersCase(mhtml, enc, Closure))

ContentStep ==
    /\ outcome = Running
    /\ state = MTHML_CONTENT
    /\ Becomes(ContentCase(mhtml, enc, Closure))

DataStep ==
    /\ outcome = Running
    /\ state = MHTML_DATA
    /\ Becomes(DataCase(mhtml, enc, Closure))

Next == HeadersStep \/ ContentStep \/ DataStep

Spec == Init /\ [][Next]_vars

-----------------------------------------------------------------------------
(* Claims about parse (specification Spec).  Part number k of the archive   *)
(* is the k-th asset parse creates.                                         *)

Parts    == doc.parts
NumParts == Len(doc.parts)

\* The archive has no structural defect.
StructurallyValid ==
    /\ doc.prologue \in GoodPrologues
    /\ \A k \in 1..NumParts : Parts[k] \in WellFormedShapes

FirstWithLocation(loc) ==
    CHOOSE k \in 1..NumParts :
        /\ Parts[k].loc = loc
        /\ \A j \in 1..(k - 1) : Parts[j].loc # loc

LastWithId(id) ==
    CHOOSE k \in 1..NumParts :
        /\ Parts[k].id = id
        /\ \A j \in (k + 1)..NumParts : Parts[j].id # id

Locations == {Parts[k].loc : k \in 1..NumParts} \ {""}
Ids       == {Parts[k].id : k \in 1..NumParts} \ {""}

\* The asset created for part k has the headers of part k.
AssetOfPart(k) ==
    /\ k <= Len(assets)
    /\ assets[k].type = <<Parts[k].type>>
    /\ assets[k].encoding = <<Parts[k].enc>>
    /\ assets[k].id = (IF Parts[k].id = "" THEN Undefined
                       ELSE Some(IdKey(Parts[k].id)))

\* C1 as claimed: after parse succeeds on a structurally valid archive,
\* every part that carries a Content-Location is in the media map under its
\* location, every part that carries a Content-ID is in the frame map under
\* its id, the maps hold nothing else, and a part with both headers is the
\* same object in both maps.
C1_AsClaimed ==
    (outcome = Returned /\ StructurallyValid) =>
        /\ \A k \in 1..NumParts :
             /\ AssetOfPart(k)
             /\ Parts[k].loc # "" =>
                  /\ <<Parts[k].loc>> \in DOMAIN media
                  /\ media[<<Parts[k].loc>>] = k
             /\ Parts[k].id # "" =>
                  /\ IdKey(Parts[k].id) \in DOMAIN frames
                  /\ frames[IdKey(Parts[k].id)] = k
             /\ (Parts[k].loc # "" /\ Parts[k].id # "") =>
                  media[<<Parts[k].loc>>] = frames[IdKey(Parts[k].id)]
        /\ DOMAIN media = {<<loc>> : loc \in Locations}
        /\ DOMAIN frames = {IdKey(id) : id \in Ids}

\* C1 (amended): after parse succeeds on a structurally valid archive, the
\* media map holds exactly the Content-Locations that occur, each with the
\* FIRST part that carries it; the frame map holds exactly the Content-IDs
\* that occur, each with the LAST part that carries it; a part registered in
\* both maps is one object, referenced by both.
C1_MapsHoldParts ==
    (outcome = Returned /\ StructurallyValid) =>
        /\ Len(assets) = NumParts
        /\ \A k \in 1..NumParts : AssetOfPart(k)
        /\ DOMAIN media = {<<loc>> : loc \in Locations}
        /\ DOMAIN frames = {IdKey(id) : id \in Ids}
        /\ \A loc \in Locations : media[<<loc>>] = FirstWithLocation(loc)
        /\ \A id \in Ids : frames[IdKey(id)] = LastWithId(id)
        /\ \A k \in 1..NumParts :
             (/\ Parts[k].loc # "" /\ Parts[k].id # ""
              /\ FirstWithLocation(Parts[k].loc) = k
              /\ LastWithId(Parts[k].id) = k)
                 => media[<<Parts[k].loc>>] = frames[IdKey(Parts[k].id)]

\* parse has returned the maps of an archive in which a part carries both
\* headers and is registered in both maps, and a location occurs twice.
C1_Witness ==
    /\ outcome = Returned
    /\ StructurallyValid
    /\ \E k \in 1..NumParts :
         /\ Parts[k].loc # "" /\ Parts[k].id # ""
         /\ media[<<Parts[k].loc>>] = k
         /\ frames[IdKey(Parts[k].id)] = k
    /\ \E j, k \in 1..NumParts : j < k /\ Parts[j].loc # "" /\ Parts[j].loc = Parts[k].loc

\* C2: an entry of the media map is never reassigned; every part read so
\* far that declares a location finds the first part of that location in the
\* map; and the data of a registered part does not change while another part
\* is the one being read.
C2_Step ==
    /\ \A loc \in DOMAIN media :
         /\ loc \in DOMAIN media'
         /\ media'[loc] = media[loc]
         /\ asset' # media[loc] =>
              assets'[media[loc]].data = assets[media[loc]].data
    /\ \A k \in 1..Len(assets') :
         Parts[k].loc # "" =>
            /\ <<Parts[k].loc>> \in DOMAIN media'
            /\ media'[<<Parts[k].loc>>] = FirstWithLocation(Parts[k].loc)

C2_FirstWriterWins == [][C2_Step]_vars

\* parse has returned after reading two parts of one location: the map has
\* the first, and the body of the second went to the second.
C2_Witness ==
    /\ outcome = Returned
    /\ \E j, k \in 1..NumParts :
         /\ j < k
         /\ Parts[j].loc # "" /\ Parts[j].loc = Parts[k].loc
         /\ media[<<Parts[j].loc>>] = j
         /\ assets[k].data # <<>>
         /\ assets[j].data # <<>>

IndexNotFound == Thrown("Index not found")

\* C3 as claimed: the index is the location of the first text/html part
\* wherever it stands, and parse fails for lack of an index only if no part
\* is text/html.
C3_AsClaimed ==
    /\ outcome = IndexNotFound =>
          \A k \in 1..NumParts : Parts[k].type # "text/html"
    /\ outcome = Returned =>
          \E k \in 1..NumParts :
             /\ Parts[k].type = "text/html"
             /\ \A j \in 1..(k - 1) : Parts[j].type # "text/html"
             /\ index = Some(<<Parts[k].loc>>)

\* C3 (amended): parse takes the FIRST part as the index document.  When an
\* index is recorded it is the Content-Location of the first part, and the
\* first part is text/html; 'Index not found' is thrown only for a first
\* part that is not text/html or has no location; and once the first part's
\* headers are read, a first part that is not text/html makes parse throw
\* 'Index not found' whatever the later parts are.
C3_FirstPartIsIndex ==
    /\ Defined(index) =>
          /\ Parts[1].type = "text/html"
          /\ Parts[1].loc # ""
          /\ index = Some(<<Parts[1].loc>>)
    /\ outcome = Returned => Defined(index)
    /\ outcome = IndexNotFound =>
          (Parts[1].type # "text/html" \/ Parts[1].loc = "")
    /\ (/\ doc.prologue \in GoodPrologues
        /\ Parts[1].type # "text/html"
        /\ outcome # Running) => outcome = IndexNotFound

\* parse has thrown 'Index not found' on an archive whose second part is
\* text/html with a location.
C3_Witness ==
    /\ outcome = IndexNotFound
    /\ NumParts >= 2
    /\ Parts[1].type = "text/css"
    /\ Parts[1].loc # ""
    /\ Parts[2].type = "text/html"
    /\ Parts[2].loc # ""

\* C4: parse returns no result when the document headers lack Content-Type
\* or boundary=, when the line after the headers is not the boundary, when a
\* part lacks Content-Transfer-Encoding or Content-Type or has neither
\* Content-ID nor Content-Location, or when the input ends before the
\* closing boundary line is complete.
C4_ViolationsThrow ==
    outcome = Returned =>
        /\ doc.prologue \notin {"no content type", "no boundary",
                                "wrong opening"}
        /\ doc.ending \notin {"unterminated", "open"}
        /\ \A k \in 1..NumParts :
             /\ Parts[k].enc # ""
             /\ Parts[k].type # ""
             /\ (Parts[k].id # "" \/ Parts[k].loc # "")

\* C5: a line without ':' that comes first in a header block is fatal: no
\* asset is ever created for a part whose header block starts with such a
\* line, and no header value is built from a missing one.
C5_OrphanContinuationThrows ==
    /\ \A k \in 1..NumParts : Parts[k].orphan => Len(assets) < k
    /\ \A name \in DOMAIN content : Head(content[name]) # "undefined"

-----------------------------------------------------------------------------
(* Specification SpecURL: absoluteURL applied to bounded inputs.            *)

MaxBaseLen == 3
MaxRelLen  == 4

UrlAlphabet == {"/", ".", "a", "http:"}

SeqsUpTo(S, n) == UNION {[1..m -> S] : m \in 0..n}

ExampleBase == <<"a", "/", "b", "/", "c.html">>
ExampleRel  == <<".", ".", "/", "d.css">>

UrlBases == SeqsUpTo(UrlAlphabet \ {"http:"}, MaxBaseLen) \cup {ExampleBase}
UrlRels  == SeqsUpTo(UrlAlphabet, MaxRelLen)
                \cup {ExampleRel, <<"https:", "/", "/", "a">>}

\* The closure variables of parse, idle.
ClosureIdle ==
    /\ doc = [prologue |-> "none"]
    /\ mhtml = <<>>
    /\ enc = "utf-8"
    /\ headers = EmptyObject
    /\ content = EmptyObject
    /\ media = EmptyObject
    /\ frames = EmptyObject
    /\ asset = 0
    /\ key = Undefined
    /\ index = Undefined
    /\ boundary = Undefined
    /\ encoding = Undefined
    /\ state = MHTML_HEADERS
    /\ i = 0
    /\ l = 0
    /\ outcome = Running

\* The variables of parse, idle, and no asset object.
ParseIdle == ClosureIdle /\ assets = <<>>

InitURL ==
    /\ ParseIdle
    /\ ConvIdle
    /\ \E b \in UrlBases, r \in UrlRels :
          call = [fn |-> "absoluteURL", base |-> b, relative |-> r]
    /\ ret = NoRet

CallAbsoluteURL ==
    /\ call.fn = "absoluteURL"
    /\ ret = NoRet
    /\ ret' = [done |-> TRUE, value |-> absoluteURL(call.base, call.relative)]
    /\ UNCHANGED <<call, parseVars, convVars>>

NextURL == CallAbsoluteURL

SpecURL == InitURL /\ [][NextURL]_vars

-----------------------------------------------------------------------------
(* C6: absoluteURL against a reference resolver.                            *)

\* The segments of relative that survive, scanning from the right: a '..'
\* cancels the nearest segment on its left, '.' contributes nothing.  The
\* result is <<kept segments, number of '..' left to apply to the base>>.
RECURSIVE RefScan(_, _, _, _)
RefScan(parts, k, skip, kept) ==
    IF k = 0 THEN <<kept, skip>>
    ELSE IF parts[k] = <<".">> THEN RefScan(parts, k - 1, skip, kept)
    ELSE IF parts[k] = <<".", ".">> THEN RefScan(parts, k - 1, skip + 1, kept)
    ELSE IF skip > 0 THEN RefScan(parts, k - 1, skip - 1, kept)
    ELSE RefScan(parts, k - 1, skip, <<parts[k]>> \o kept)

RefResolve(base, relative) ==
    IF MatchAt(relative, HTTP, 0) \/ MatchAt(relative, HTTPS, 0) THEN relative
    ELSE LET dirs  == Pop(Split(base, "/"))
             parts == Split(relative, "/")
             scan  == RefScan(parts, Len(parts), 0, <<>>)
             left  == SubSeq(dirs, 1, Max(0, Len(dirs) - scan[2]))
         IN  Join(left \o scan[1], "/")

\* relative with one '.' segment inserted before its segment number p + 1.
InsertDot(relative, p) ==
    LET parts == Split(relative, "/")
    IN  Join(SubSeq(parts, 1, p) \o <<<<".">>>> \o SubSeq(parts, p + 1, Len(parts)),
             "/")

IsAbsolute(relative) == MatchAt(relative, HTTP, 0) \/ MatchAt(relative, HTTPS, 0)

URLReturned == call.fn = "absoluteURL" /\ ret.done

C6_MatchesReference ==
    URLReturned => ret.value = RefResolve(call.base, call.relative)

C6_Example ==
    (URLReturned /\ call.base = ExampleBase /\ call.relative = ExampleRel)
        => ret.value = <<"a", "/", "d.css">>

\* C6 as claimed: absoluteURL equals the reference resolver, resolves
\* ("a/b/c.html", "../d.css") to "a/d.css", and inserting a '.' segment
\* anywhere into ANY relative leaves the result unchanged.
C6_AsClaimed ==
    /\ C6_MatchesReference
    /\ C6_Example
    /\ URLReturned =>
          \A p \in 0..Len(Split(call.relative, "/")) :
              absoluteURL(call.base, InsertDot(call.relative, p)) = ret.value

\* C6 (amended): absoluteURL equals the reference resolver for every base
\* and relative, resolves ("a/b/c.html", "../d.css") to "a/d.css", and
\* inserting a '.' segment anywhere leaves the result unchanged provided
\* relative starts with http:// or https:// neither before nor after the
\* insertion.
C6_Resolver ==
    /\ C6_MatchesReference
    /\ C6_Example
    /\ (URLReturned /\ ~IsAbsolute(call.relative)) =>
          \A p \in 0..Len(Split(call.relative, "/")) :
              ~IsAbsolute(InsertDot(call.relative, p)) =>
                  absoluteURL(call.base, InsertDot(call.relative, p)) = ret.value

\* The example of the claim has been resolved, through one '..' pop.
C6_Witness ==
    /\ URLReturned
    /\ call.base = ExampleBase
    /\ call.relative = ExampleRel
    /\ ret.value = <<"a", "/", "d.css">>

-----------------------------------------------------------------------------
(* Specification SpecRefs: replaceReferences applied to bounded texts.      *)

MaxTextLen == 4

Asset(encoding0, type, data) ==
    [encoding |-> <<encoding0>>, type |-> <<type>>, data |-> data,
     id |-> Undefined]

\* A parsed archive: an image, and a stylesheet that refers to the image.
RefAssets ==
    <<Asset("base64", "image/png", <<"QUJD">>),
      Asset("quoted-printable", "text/css", <<"b", "url(", "img.png", ")">>)>>

RefMedia == (<<"img.png">> :> 1) @@ (<<"s.css">> :> 2)

RefBase == <<"index.html">>

RefAlphabet == {"url(", ")", "'", "img.png", "s.css", "x"}

ExampleText == <<"background:", "url(", "'", "img.png", "'", ")">>

\* Two references, the first one longer than the data URI that replaces it.
LongReferenceText ==
    <<"b", "url(", "'", ".", "/", ".", "/", ".", "/", "img.png", "'", ")",
      "url(", "img.png", ")">>

RefTexts == SeqsUpTo(RefAlphabet, MaxTextLen)
                \cup {ExampleText, LongReferenceText}

InitRefs ==
    /\ ParseIdle
    /\ ConvIdle
    /\ \E t \in RefTexts :
          call = [fn |-> "replaceReferences", media |-> RefMedia,
                  assets |-> RefAssets, base |-> RefBase, asset |-> t]
    /\ ret = NoRet

CallReplaceReferences ==
    /\ call.fn = "replaceReferences"
    /\ ret = NoRet
    /\ LET r == replaceReferences(call.media, call.assets, call.base, call.asset)
       IN  ret' = [done |-> TRUE, value |-> r.asset, assets |-> r.assets,
                   overflow |-> r.overflow]
    /\ UNCHANGED <<call, parseVars, convVars>>

NextRefs == CallReplaceReferences

SpecRefs == InitRefs /\ [][NextRefs]_vars

\* The rewriting the claim describes: every occurrence of 'url(' that has a
\* closing ')', wherever it stands; a reference found in media is replaced
\* by the quoted data URI of the entry (of its rewritten body for a
\* stylesheet), any other reference is left as it is.
RECURSIVE RewriteEvery(_, _, _, _)
RewriteEvery(m, h, base, text) ==
    LET j     == IndexOf(text, CSS_URL_RULE, 0)
        p     == j + Len(CSS_URL_RULE)
        close == IndexOf(text, <<")">>, p)
        reference == SubSeq(text, p + 1, close)
        path  == absoluteURL(base, RemoveAll(reference, {"\"", "'"}))
        entry == IF h[m[path]].type = TextCss
                 THEN [h[m[path]] EXCEPT
                          !.data = RewriteEvery(m, h, base, h[m[path]].data)]
                 ELSE h[m[path]]
        embed == EmbeddedAsset(entry)
    IN  IF j = -1 \/ close = -1 THEN text
        ELSE SubSeq(text, 1, p)
                 \o (IF path \in DOMAIN m /\ Defined(embed)
                     THEN Val(embed) ELSE reference)
                 \o RewriteEvery(m, h, base, SubSeq(text, close + 1, Len(text)))

\* C7: replaceReferences returns the text in which every occurrence of
\* 'url(', at any position and for any lengths of reference and payload,
\* has its reference replaced by the data URI when media has it, and is
\* unchanged otherwise; the claim's example included.
C7_RewritesEveryReference ==
    (call.fn = "replaceReferences" /\ ret.done) =>
        /\ ~ret.overflow
        /\ ret.value = RewriteEvery(call.media, call.assets, call.base, call.asset)
        /\ call.asset = ExampleText =>
             ret.value = <<"background:", "url(", "'", "data:", "image/png",
                           ";base64,", "QUJD", "'", ")">>

-----------------------------------------------------------------------------
(* Specification SpecURI: convertAssetToDataURI applied to bounded assets.  *)

MaxChunks == 3

\* The pieces a body is made of: text, escapes of the bytes 0xC3, 0xA9 and
\* 0x41, a lone '=', white space and line breaks.
Chunks == {<<"x">>, <<"=", "C", "3">>, <<"=", "a", "9">>, <<"=", "4", "1">>,
           <<"=">>, <<" ">>, <<"\n">>}

Bodies == {Flatten(cs) : cs \in SeqsUpTo(Chunks, MaxChunks)}

TransferEncodings == {"quoted-printable", "base64", "binary", "7bit", "8bit"}

InitURI ==
    /\ ParseIdle
    /\ ConvIdle
    /\ \E e \in TransferEncodings, d \in Bodies, cs \in {"utf-8", "gbk"} :
          call = [fn |-> "convertAssetToDataURI",
                  asset |-> Asset(e, "image/png", d), enc |-> cs]
    /\ ret = NoRet

CallConvertAssetToDataURI ==
    /\ call.fn = "convertAssetToDataURI"
    /\ ret = NoRet
    /\ LET r == convertAssetToDataURI(call.asset, call.enc)
       IN  ret' = [done |-> TRUE, thrown |-> r.thrown, value |-> r.value]
    /\ UNCHANGED <<call, parseVars, convVars>>

NextURI == CallConvertAssetToDataURI

SpecURI == InitURI /\ [][NextURI]_vars

\* C8: convertAssetToDataURI returns a data URI for every transfer encoding:
\* 'data:<type>;utf8,' and the escaped decoded text for quoted-printable,
\* 'data:<type>;base64,' and the data for base64, 'data:<type>;base64,' and
\* the base64 encoding of the data for any other encoding; it never throws.
C8_DataURIForEveryEncoding ==
    (call.fn = "convertAssetToDataURI" /\ ret.done) =>
        /\ ~ret.thrown
        /\ Len(ret.value) >= 3
        /\ ret.value[1] = "data:"
        /\ ret.value[2] = "image/png"
        /\ ret.value[3] = (IF call.asset.encoding = <<"quoted-printable">>
                           THEN ";utf8," ELSE ";base64,")
        /\ call.asset.encoding = <<"base64">> =>
             SubSeq(ret.value, 4, Len(ret.value)) = call.asset.data
        /\ call.asset.encoding \notin {<<"base64">>, <<"quoted-printable">>} =>
             Len(ret.value) = 3 + Len(call.asset.data)

-----------------------------------------------------------------------------
(* Specification SpecConvert: convert applied to parsed archives.           *)

\* The location and the body of the quoted-printable image part.
SvgLocation == <<"pic.svg">>
SvgBody     == <<"=", "C", "3", "=", "A", "9">>

\* The index page of an archive: a stylesheet link, a style element, an
\* image, an inline frame, and elements that carry style and integrity.
IndexPage(linkHref, imgSrc, frameSrc) ==
    DocumentNode(<<
        Doctype,
        Element("HTML", <<
            Element("HEAD", <<
                [Element("LINK", <<>>) EXCEPT
                    !.href = Some(linkHref), !.media = Some(<<"print">>),
                    !.integrity = TRUE],
                Element("STYLE",
                        <<TextNode(<<"c", "url(", "img.png", ")">>)>>)>>),
            Element("BODY", <<
                [Element("IMG", <<>>) EXCEPT
                    !.src = Some(imgSrc), !.integrity = TRUE],
                [Element("IFRAME", <<>>) EXCEPT !.src = frameSrc],
                [Element("DIV", <<
                    [Element("SPAN", <<TextNode(<<"t">>)>>) EXCEPT
                        !.integrity = TRUE]>>) EXCEPT
                    !.cssText = Some(ExampleText),
                    !.integrity = TRUE]>>)>>)>>)

\* The page of a frame: two images and, optionally, an inline frame.
FramePage(frameSrc) ==
    DocumentNode(<<
        Element("HTML", <<
            Element("HEAD", <<>>),
            Element("BODY", <<
                [Element("IMG", <<>>) EXCEPT !.src = Some(<<"img.png">>)],
                [Element("IMG", <<>>) EXCEPT !.src = Some(SvgLocation)],
                [Element("IFRAME", <<>>) EXCEPT
                    !.src = frameSrc, !.integrity = TRUE]>>)>>)>>)

LinkHrefs == {<<"s.css">>, <<".", "/", "s.css">>, <<"none.css">>,
              <<"img.png">>}

ImgSrcs == {<<"img.png">>, <<".", "/", "img.png">>, <<"bin.png">>,
            <<"none.png">>, SvgLocation}

\* The src of the inline frame of the index page; <<>> is no src at all.
FrameSrcs == {Some(<<"cid:", "frame1">>), Some(<<"x", "cid:", "frame1">>),
              Some(<<"frame1.html">>), Some(<<"cid:", "frame2">>),
              Some(<<"cid:", "none">>), Undefined}

\* The src of the inline frame inside frame1: none, frame1 itself, frame3.
InnerFrameSrcs == {Undefined, Some(<<"cid:", "frame1">>),
                   Some(<<"cid:", "frame3">>)}

Pages == {IndexPage(a, b, c) :
              a \in LinkHrefs, b \in ImgSrcs, c \in FrameSrcs}
             \cup {FramePage(c) : c \in InnerFrameSrcs}

\* parseDOM(asset): the document whose HTML text is asset.
parseDOM(text) == CHOOSE p \in Pages : Html(p) = text

\* The body of the stylesheet part.
StyleSheet == <<"b", "url(", "img.png", ")">>

\* The asset objects of a parsed archive.
ConvertAssets(page, inner) ==
    <<Asset("quoted-printable", "text/html", Html(page)),
      Asset("quoted-printable", "text/css", StyleSheet),
      Asset("base64", "image/png", <<"QUJD">>),
      Asset("binary", "image/png", <<"x">>),
      [Asset("quoted-printable", "text/html", Html(FramePage(inner)))
           EXCEPT !.id = Some(IdKey("frame1"))],
      [Asset("base64", "image/png", <<"REVG">>)
           EXCEPT !.id = Some(IdKey("frame2"))],
      [Asset("quoted-printable", "text/html", Html(FramePage(Undefined)))
           EXCEPT !.id = Some(IdKey("frame3"))],
      Asset("quoted-printable", "image/svg+xml", SvgBody)>>

IndexLocation == <<"index.html">>
CssLocation   == <<"s.css">>
PngLocation   == <<"img.png">>

ConvertMedia ==
    (IndexLocation :> 1) @@ (CssLocation :> 2) @@ (PngLocation :> 3)
        @@ (<<"bin.png">> :> 4) @@ (SvgLocation :> 8)

ConvertFrames ==
    (IdKey("frame1") :> 5) @@ (IdKey("frame2") :> 6) @@ (IdKey("frame3") :> 7)

\* The index of the parsed archive: the index page, an image, no entry.
Indexes == {IndexLocation, PngLocation, <<"none">>}

InitConvert ==
    /\ ClosureIdle
    /\ ConvIdle
    /\ \E a \in LinkHrefs, b \in ImgSrcs, c \in FrameSrcs,
          g \in InnerFrameSrcs, x \in Indexes, o \in BOOLEAN,
          cs \in {"utf-8", "gbk"} :
          /\ x # IndexLocation =>
                 /\ a = <<"s.css">> /\ b = <<"img.png">>
                 /\ c = Undefined /\ g = Undefined
          /\ assets = ConvertAssets(IndexPage(a, b, c), g)
          /\ call = [fn |-> "convert",
                     mhtml |-> [media |-> ConvertMedia,
                                frames |-> ConvertFrames, index |-> x],
                     options |-> [convertIframes |-> o, enc |-> cs],
                     page |-> [href |-> a, src |-> b, frame |-> c]]
    /\ ret = NoRet

\* The activation of convert(mhtml, options) after its assertions and
\* parseDOM: the node store and the locals of the activation.  visited is
\* the history of the children the forEach callback was called with.
Activation(d, m, f, idx, options) ==
    LET root == Alloc(d, parseDOM(assets[m[idx]].data))
    IN  [dom |-> root.dom,
         locals |-> [media |-> m, frames |-> f, index |-> idx,
                     convertIframes |-> options.convertIframes,
                     enc |-> options.enc,
                     documentElem |-> root.id, nodes |-> <<root.id>>,
                     childNode |-> 0, k |-> 0,
                     href |-> Undefined, src |-> Undefined,
                     visited |-> <<>>]]

\* The assertion on media[index] of convert.
ValidIndex(m, idx) == idx \in DOMAIN m /\ assets[m[idx]].type = TextHtml

\* convert ends with an error: every activation is unwound.
ConvertThrows(error) ==
    /\ ret' = [done |-> TRUE, thrown |-> TRUE, error |-> error, document |-> 0]
    /\ calls' = <<>>
    /\ UNCHANGED <<dom, assets>>

\* convert goes on with node store d, asset objects h and activations s.
ConvertGoesOn(d, h, s) ==
    /\ dom' = d
    /\ assets' = h
    /\ calls' = s
    /\ UNCHANGED ret

ConvertFrame == <<call, doc, mhtml, enc, state, i, l, key, headers, content,
                  media, frames, asset, index, boundary, encoding, outcome>>

\* convert(mhtml, options) is called with a parsed archive.
CallConvert ==
    /\ call.fn = "convert"
    /\ ret = NoRet
    /\ calls = <<>>
    /\ IF ValidIndex(call.mhtml.media, call.mhtml.index)
       THEN LET a == Activation(dom, call.mhtml.media, call.mhtml.frames,
                                call.mhtml.index, call.options)
            IN  ConvertGoesOn(a.dom, assets, <<a.locals>>)
       ELSE ConvertThrows(InvalidIndex)
    /\ UNCHANGED ConvertFrame

\* The innermost activation, the node whose children it is visiting and
\* the child the forEach callback is called with next.
Top == calls[Len(calls)]
ForEachDone(a) ==
    IF a.childNode = 0 THEN TRUE ELSE a.k >= Len(dom[a.childNode].childNodes)
Visiting == calls # <<>> /\ ~ForEachDone(Top)
Child == dom[Top.childNode].childNodes[Top.k + 1]
IsElement(id) == dom[id].nodeType = "element"

\* href and src after the getAttribute calls of the callback.
Locals ==
    IF IsElement(Child)
    THEN [Top EXCEPT !.href = dom[Child].href, !.src = dom[Child].src]
    ELSE Top

\* removeAttribute('integrity') on LINK elements only.
Stripped_linkOnly ==
    IF dom[Child].tagName = "LINK"
    THEN [dom EXCEPT ![Child].integrity = FALSE] ELSE dom

\* The node store after child.removeAttribute('integrity').
Stripped ==
    IF IsElement(Child) THEN [dom EXCEPT ![Child].integrity = FALSE] ELSE dom

\* nodes.push(child), and the forEach moves to the next child.
Pushed(a, id) ==
    [a EXCEPT !.nodes = Append(@, id), !.k = @ + 1, !.visited = Append(@, id)]

SetTop(a) == [calls EXCEPT ![Len(calls)] = a]

\* while (nodes.length) { const childNode = nodes.shift() ...
Shift ==
    /\ calls # <<>>
    /\ ForEachDone(Top)
    /\ Top.nodes # <<>>
    /\ calls' = SetTop([Top EXCEPT !.childNode = Head(Top.nodes),
                                   !.nodes = Tail(Top.nodes), !.k = 0])
    /\ UNCHANGED <<dom, assets, ret, ConvertFrame>>

\* case 'HEAD'
VisitHead ==
    /\ Visiting
    /\ dom[Child].tagName = "HEAD"
    /\ LET base == [Element("BASE", <<>>) EXCEPT !.target = Some(<<"_parent">>)]
           id   == Len(dom) + 1
       IN  ConvertGoesOn(
               Append([Stripped EXCEPT ![Child].childNodes = <<id>> \o @], base),
               assets, SetTop(Pushed(Locals, Child)))
    /\ UNCHANGED ConvertFrame

\* A new style element of type text/css that holds text, stored in d, in the
\* place of the child being visited.
Restyled(d, text, mediaAttr) ==
    LET id == Len(d) + 1
        style == [Element("STYLE", <<id + 1>>) EXCEPT
                     !.type = Some(TextCss), !.media = mediaAttr]
    IN  Append(Append([d EXCEPT ![Top.childNode].childNodes[Top.k + 1] = id],
                      style),
               TextNode(text))

\* case 'LINK'
VisitLink ==
    /\ Visiting
    /\ dom[Child].tagName = "LINK"
    /\ LET href == KeyOf(Locals.href)
           m    == Top.media
       IN  IF href \in DOMAIN m /\ assets[m[href]].type = TextCss
           THEN LET r == replaceReferences(m, assets, href, assets[m[href]].data)
                    h == [r.assets EXCEPT ![m[href]].data = r.asset]
                    linkMedia == IF Defined(dom[Child].media)
                                 THEN dom[Child].media ELSE Some(<<>>)
                IN  IF r.overflow THEN ConvertThrows(CallStackExceeded)
                    ELSE ConvertGoesOn(Restyled(Stripped, r.asset, linkMedia),
                                       h, SetTop(Pushed(Locals, Child)))
           ELSE ConvertGoesOn(Stripped, assets, SetTop(Pushed(Locals, Child)))
    /\ UNCHANGED ConvertFrame

\* case 'STYLE'
VisitStyle ==
    /\ Visiting
    /\ dom[Child].tagName = "STYLE"
    /\ LET r == replaceReferences(Top.media, assets, Top.index,
                                  InnerHTML(dom, Child))
       IN  IF r.overflow THEN ConvertThrows(CallStackExceeded)
           ELSE ConvertGoesOn(Restyled(Stripped, r.asset, Undefined),
                              r.assets, SetTop(Pushed(Locals, Child)))
    /\ UNCHANGED ConvertFrame

\* case 'IMG'
VisitImg ==
    /\ Visiting
    /\ dom[Child].tagName = "IMG"
    /\ LET src0 == KeyOf(Locals.src)
           m    == Top.media
           img  == IF src0 \in DOMAIN m /\ IncludesImage(assets[m[src0]].type)
                   THEN LET uri == convertAssetToDataURI(assets[m[src0]], Top.enc)
                        IN  IF uri.thrown THEN Undefined ELSE Some(uri.value)
                   ELSE Undefined
           d1   == IF Defined(img) THEN [Stripped EXCEPT ![Child].src = img]
                   ELSE Stripped
           r    == replaceReferences(m, assets, Top.index, CssText(dom[Child]))
       IN  IF r.overflow THEN ConvertThrows(CallStackExceeded)
           ELSE ConvertGoesOn([d1 EXCEPT ![Child].cssText = Some(r.asset)],
                              r.assets, SetTop(Pushed(Locals, Child)))
    /\ UNCHANGED ConvertFrame

\* The condition under which case 'IFRAME' calls convert for the frame.
FrameConverted(a, src0) ==
    /\ a.convertIframes = TRUE
    /\ Defined(src0) /\ Val(src0) # <<>>
    /\ FrameId(Val(src0)) \in DOMAIN a.frames
    /\ assets[a.frames[FrameId(Val(src0))]].type = TextHtml

\* case 'IFRAME', up to the recursive call of convert.
VisitIframe ==
    /\ Visiting
    /\ dom[Child].tagName = "IFRAME"
    /\ IF FrameConverted(Top, Locals.src)
       THEN LET id == FrameId(Val(Locals.src))
                a  == Activation(Stripped,
                                 Put(Top.media, id, Top.frames[id]),
                                 Top.frames, id,
                                 [convertIframes |-> Top.convertIframes,
                                  enc |-> "utf-8"])
            IN  IF Len(calls) >= MaxCallDepth
                THEN ConvertThrows(CallStackExceeded)
                ELSE ConvertGoesOn(a.dom, assets,
                                   Append(SetTop(Locals), a.locals))
       ELSE ConvertGoesOn(Stripped, assets, SetTop(Pushed(Locals, Child)))
    /\ UNCHANGED ConvertFrame

\* default
VisitDefault ==
    /\ Visiting
    /\ dom[Child].tagName \notin {"HEAD", "LINK", "STYLE", "IMG", "IFRAME"}
    /\ IF IsElement(Child)
       THEN LET r == replaceReferences(Top.media, assets, Top.index,
                                       CssText(dom[Child]))
            IN  IF r.overflow THEN ConvertThrows(CallStackExceeded)
                ELSE ConvertGoesOn(
                         IF r.asset # <<>>
                         THEN [Stripped EXCEPT ![Child].cssText = Some(r.asset)]
                         ELSE Stripped,
                         r.assets, SetTop(Pushed(Locals, Child)))
       ELSE ConvertGoesOn(Stripped, assets, SetTop(Pushed(Locals, Child)))
    /\ UNCHANGED ConvertFrame

\* return documentElem: to the caller of convert, or into case 'IFRAME' of
\* the activation that called, which sets child.src and goes on.
Return ==
    /\ calls # <<>>
    /\ ForEachDone(Top)
    /\ Top.nodes = <<>>
    /\ IF Len(calls) = 1
       THEN /\ ret' = [done |-> TRUE, thrown |-> FALSE, error |-> "",
                       document |-> Top.documentElem]
            /\ calls' = <<>>
            /\ UNCHANGED <<dom, assets>>
       ELSE LET caller == calls[Len(calls) - 1]
                child  == dom[caller.childNode].childNodes[caller.k + 1]
                html   == Html(Tree(dom, DocumentElement(dom, Top.documentElem)))
            IN  ConvertGoesOn(
                    [dom EXCEPT ![child].src =
                        Some(DataTextHtml \o EncodeURIComponent(html))],
                    assets,
                    Append(SubSeq(calls, 1, Len(calls) - 2),
                           Pushed(caller, child)))
    /\ UNCHANGED ConvertFrame

NextConvert ==
    \/ CallConvert
    \/ Shift
    \/ VisitHead
    \/ VisitLink
    \/ VisitStyle
    \/ VisitImg
    \/ VisitIframe
    \/ VisitDefault
    \/ Return

SpecConvert == InitConvert /\ [][NextConvert]_vars

-----------------------------------------------------------------------------
(* Claims about convert.                                                    *)

\* The nodes of the tree below node id.
RECURSIVE Descendants(_, _)
Descendants(d, id) ==
    {id} \cup UNION {Descendants(d, d[id].childNodes[n]) :
                        n \in 1..Len(d[id].childNodes)}

\* convert has returned a document; its nodes.
ConvertReturned == call.fn = "convert" /\ ret.done /\ ~ret.thrown
ResultNodes == Descendants(dom, ret.document)
Tagged(tag) == {n \in ResultNodes : dom[n].tagName = tag}

DefaultOptions == [convertIframes |-> FALSE, enc |-> "utf-8"]

\* C9: convert with default options on an archive with an HTML index, a
\* stylesheet part referenced by a LINK and a base64 image/png part
\* referenced by an IMG returns a document in which the LINK is replaced by
\* a STYLE that holds the rewritten stylesheet and the LINK's media, and the
\* IMG's src starts with 'data:image/png;base64,'; for every href and src
\* that absoluteURL, with the index location as base, maps to the location
\* of the part.
C9_LinkAndImgInlined ==
    (/\ call.fn = "convert" /\ ret.done
     /\ call.options = DefaultOptions
     /\ call.mhtml.index = IndexLocation
     /\ absoluteURL(IndexLocation, call.page.href) = CssLocation
     /\ absoluteURL(IndexLocation, call.page.src) = PngLocation)
    => /\ ~ret.thrown
       /\ Tagged("LINK") = {}
       /\ \E n \in Tagged("STYLE") :
             /\ dom[n].media = Some(<<"print">>)
             /\ InnerHTML(dom, n)
                  = RewriteEvery(call.mhtml.media, assets, CssLocation,
                                 StyleSheet)
       /\ \A n \in Tagged("IMG") :
             /\ Defined(dom[n].src)
             /\ MatchAt(Val(dom[n].src),
                        <<"data:", "image/png", ";base64,">>, 0)

\* The condition of the claim for converting a frame: convertIframes is
\* true, src is 'cid:' followed by an id, and frames holds a text/html part
\* under '<id>'.
CidReferenceToHtmlFrame(convertIframes, f, src0) ==
    /\ convertIframes = TRUE
    /\ Defined(src0)
    /\ MatchAt(Val(src0), <<"cid:">>, 0)
    /\ LET id == <<"<">> \o Tail(Val(src0)) \o <<">">>
       IN  id \in DOMAIN f /\ assets[f[id]].type = TextHtml

\* C10: convert changes the src of an IFRAME exactly when convertIframes is
\* true, the src is a cid: reference and frames holds a text/html part under
\* the bracketed id, the new src being 'data:text/html;charset=utf-8,' and
\* the encoded HTML of the converted frame; in every other case the src is
\* unchanged and convert does not call itself.
C10_IframeSrcChangesIffCidFrame ==
    /\ \A n \in 2..Len(calls) :
          LET caller == calls[n - 1]
              child  == dom[caller.childNode].childNodes[caller.k + 1]
          IN  CidReferenceToHtmlFrame(caller.convertIframes, caller.frames,
                                      dom[child].src)
    /\ (ConvertReturned /\ call.mhtml.index = IndexLocation) =>
          \A n \in Tagged("IFRAME") :
             IF CidReferenceToHtmlFrame(call.options.convertIframes,
                                        call.mhtml.frames, call.page.frame)
             THEN /\ dom[n].src # call.page.frame
                  /\ MatchAt(Val(dom[n].src), DataTextHtml, 0)
                  /\ Len(Val(dom[n].src)) > Len(DataTextHtml)
             ELSE dom[n].src = call.page.frame

\* convert is about to return documentElem to its caller.
AboutToReturn == Len(calls) = 1 /\ ForEachDone(Top) /\ Top.nodes = <<>>

\* The number of times the callback of the outermost activation was called
\* with node n.
Visits(n) ==
    Cardinality({j \in 1..Len(calls[1].visited) : calls[1].visited[j] = n})

TreeElements == {n \in Descendants(dom, calls[1].documentElem) : IsElement(n)}

\* C11 as stated: no element of the returned tree carries integrity, and
\* the work queue has visited every element of that tree exactly once.
C11_AsClaimed ==
    /\ ConvertReturned => \A n \in ResultNodes : ~dom[n].integrity
    /\ AboutToReturn => \A n \in TreeElements : Visits(n) = 1

\* C11: when convert returns, no element of the returned tree carries
\* integrity: every element the parser or the HEAD case put in the tree was
\* visited exactly once and lost the attribute; a STYLE element of the
\* returned tree is a replacement made during the walk, is never visited and
\* was created without the attribute.
C11_NoIntegrity ==
    /\ ConvertReturned => \A n \in ResultNodes : ~dom[n].integrity
    /\ AboutToReturn =>
          \A n \in TreeElements :
             /\ ~dom[n].integrity
             /\ Visits(n) = (IF dom[n].tagName = "STYLE" THEN 0 ELSE 1)

\* convert has returned a document for a page that had integrity on its
\* LINK, IMG, DIV and SPAN, with the LINK replaced and a BASE inserted.
C11_Witness ==
    /\ ConvertReturned
    /\ call.page.href = CssLocation
    /\ Tagged("LINK") = {}
    /\ Tagged("BASE") # {}
    /\ Cardinality(Tagged("STYLE")) = 2
    /\ Tagged("SPAN") # {}

\* The maps of the activations that exist before and after a step are the
\* same, and those of the outermost activation are the caller's.
MapsKept ==
    /\ \A n \in 1..Min(Len(calls), Len(calls')) :
          /\ calls'[n].media = calls[n].media
          /\ calls'[n].frames = calls[n].frames
    /\ calls' # <<>> =>
          /\ calls'[1].media = call.mhtml.media
          /\ calls'[1].frames = call.mhtml.frames
    /\ call' = call

\* C12 as stated: a step of convert changes neither the maps nor the type,
\* encoding or data of any stored part.
C12_StepAsClaimed ==
    call.fn = "convert" => (MapsKept /\ assets' = assets)

C12_AsClaimed == [][C12_StepAsClaimed]_vars

C12_Step ==
    call.fn = "convert" =>
        /\ MapsKept
        /\ Len(assets') = Len(assets)
        /\ \A r \in 1..Len(assets) :
              /\ assets'[r].type = assets[r].type
              /\ assets'[r].encoding = assets[r].encoding
              /\ assets'[r].id = assets[r].id
              /\ assets'[r].data # assets[r].data => assets[r].type = TextCss

\* C12: during inlining no key is added to or removed from the caller's
\* media or frames map and no stored part's type or encoding is changed;
\* the data of a text/css part is overwritten with its rewritten text, the
\* data of any other part is never changed.
C12_OnlyStylesheetDataRewritten == [][C12_Step]_vars

\* convert has returned and the stored stylesheet holds the rewritten text.
C12_Witness ==
    /\ ConvertReturned
    /\ assets[call.mhtml.media[CssLocation]].data # StyleSheet
    /\ assets[call.mhtml.media[PngLocation]].data = <<"QUJD">>

-----------------------------------------------------------------------------
(* Claims about the states of parse (specification Spec).                   *)

\* The changes of state the claim allows.
AllowedChanges ==
    {<<MHTML_HEADERS, MTHML_CONTENT>>, <<MTHML_CONTENT, MHTML_DATA>>,
     <<MHTML_DATA, MTHML_CONTENT>>, <<MHTML_DATA, MHTML_END>>}

C13_Step ==
    /\ state' # state => <<state, state'>> \in AllowedChanges
    /\ (state = MHTML_DATA /\ state' # state) =>
          (state' = MHTML_END <=> i' >= Len(mhtml))

\* C13: the state of parse only changes along HEADERS->CONTENT,
\* CONTENT->DATA, DATA->CONTENT and DATA->END; END is terminal, HEADERS is
\* never re-entered, and DATA goes to END exactly when no input remains
\* after the boundary line that ends the part, and to CONTENT otherwise.
C13_StateChanges == [][C13_Step]_vars

-----------------------------------------------------------------------------
(* Specification SpecQP: decodeQuotedPrintable applied to bounded inputs.   *)

MaxPieces == 3

\* The pieces an input is made of: text, escapes of the bytes 0xC3, 0xA9
\* and 0x41, a lone '=', white space and line terminators.
Pieces == Chunks \cup {<<"\t">>, <<"\r", "\n">>}

QpInputs == {Flatten(cs) : cs \in SeqsUpTo(Pieces, MaxPieces)}

InitQP ==
    /\ ParseIdle
    /\ ConvIdle
    /\ \E d \in QpInputs, cs \in {"utf-8", "gbk"} :
          call = [fn |-> "decodeQuotedPrintable", input |-> d, enc |-> cs]
    /\ ret = NoRet

CallDecodeQuotedPrintable ==
    /\ call.fn = "decodeQuotedPrintable"
    /\ ret = NoRet
    /\ ret' = [done |-> TRUE,
               value |-> decodeQuotedPrintable(call.input, call.enc)]
    /\ UNCHANGED <<call, parseVars, convVars>>

NextQP == CallDecodeQuotedPrintable

SpecQP == InitQP /\ [][NextQP]_vars

\* A space or tab stands directly before a line terminator or the end.
TrailingBlank(text) ==
    \E n \in 1..Len(text) :
       /\ text[n] \in {" ", "\t"}
       /\ (n = Len(text) \/ text[n + 1] \in LineTerminators)

\* C14: decodeQuotedPrintable strips all trailing spaces and tabs of each
\* line: for an input of literal text (no '='), however many spaces or tabs
\* precede a line terminator or the end of the input, the output has no
\* space or tab directly before that terminator or the end.
C14_NoTrailingBlank ==
    (/\ call.fn = "decodeQuotedPrintable" /\ ret.done
     /\ \A n \in 1..Len(call.input) : call.input[n] # "=")
    => ~TrailingBlank(ret.value)

-----------------------------------------------------------------------------
(* Specification SpecLine: getLine('quoted-printable') applied to bounded   *)
(* bodies of physical lines.                                                *)

MaxPhysicalLines == 2

\* What a physical line holds before its end: text and escapes of the bytes
\* 0xC3 and 0xA9, whole or cut in the middle of the two-byte character.
LineTexts ==
    {<<>>, <<"x">>, <<"=", "C", "3">>, <<"=", "A", "9">>,
     <<"=", "C", "3", "=", "A", "9">>, <<"x", "=", "C", "3">>,
     <<"=", "a", "9", "x">>, <<"=", "4", "1">>}

\* A physical line: its text and whether it ends with a soft break.
PhysicalLines == [text : LineTexts, soft : BOOLEAN]

\* The body that spells the physical lines, followed by the line 'z' and
\* one more character.
Body(lines, eol) ==
    Flatten([n \in 1..Len(lines) |->
                lines[n].text \o (IF lines[n].soft THEN <<"=">> ELSE <<>>)
                    \o eol])
        \o <<"z">> \o eol \o <<"z">>

SplitExample == <<[text |-> <<"=", "C", "3">>, soft |-> TRUE],
                  [text |-> <<"=", "A", "9">>, soft |-> FALSE]>>

InitLine ==
    /\ ParseIdle
    /\ ConvIdle
    /\ \E n \in 1..MaxPhysicalLines, eol \in {LF, CRLF}, cs \in {"utf-8", "gbk"} :
       \E lines \in [1..n -> PhysicalLines] :
          call = [fn |-> "getLine", lines |-> lines, eol |-> eol,
                  mhtml |-> Body(lines, eol), enc |-> cs]
    /\ ret = NoRet

CallGetLine ==
    /\ call.fn = "getLine"
    /\ ret = NoRet
    /\ LET r == getLine(call.mhtml, 0, 0, Some(<<"quoted-printable">>), call.enc)
       IN  ret' = IF r = <<>>
                  THEN [done |-> TRUE, thrown |-> TRUE, line |-> <<>>, i |-> 0]
                  ELSE [done |-> TRUE, thrown |-> FALSE, line |-> r[1],
                        i |-> r[2]]
    /\ UNCHANGED <<call, parseVars, convVars>>

NextLine == CallGetLine

SpecLine == InitLine /\ [][NextLine]_vars

\* The text of the logical line that starts with the first physical line:
\* the texts of the physical lines up to the first one without a soft break
\* (the line 'z' when all have one).
RECURSIVE LogicalLine(_)
LogicalLine(lines) ==
    IF lines = <<>> THEN <<"z">>
    ELSE IF Head(lines).soft THEN Head(lines).text \o LogicalLine(Tail(lines))
    ELSE Head(lines).text

\* C15: in a quoted-printable part a physical line that ends with a soft
\* break is joined with the following physical line into one logical line
\* before any escape is decoded, and every maximal run of adjacent escapes
\* is decoded as one byte sequence: the line read is the decoded text of the
\* joined line, and '=C3=' newline '=A9' gives U+00E9 under UTF-8 as the
\* unsplit '=C3=A9' does.
C15_SoftBreaksJoinedBeforeDecoding ==
    (/\ call.fn = "getLine" /\ ret.done
     /\ CharAt(call.mhtml, 0) \notin LineTerminators)
    => /\ ~ret.thrown
       /\ ret.line = decodeQuotedPrintable(LogicalLine(call.lines) \o <<"\n">>,
                                           call.enc)
       /\ (call.lines = SplitExample /\ call.enc = "utf-8") =>
             ret.line = <<"U+00E9", "\n">>
       /\ (call.lines = SplitExample /\ call.enc = "gbk") =>
             ret.line = <<"U+8305", "\n">>

\* The claim's example has been read, with either line terminator.
C15_Witness ==
    /\ call.fn = "getLine" /\ ret.done /\ ~ret.thrown
    /\ call.lines = SplitExample
    /\ call.eol = CRLF
    /\ call.enc = "utf-8"
    /\ ret.line = <<"U+00E9", "\n">>

-----------------------------------------------------------------------------
(* Claims about the recursion of convert (specification SpecConvert).       *)

\* The nodes of a tree whose childNodes are trees.
RECURSIVE TreeNodes(_)
TreeNodes(t) ==
    {t} \cup UNION {TreeNodes(t.childNodes[n]) : n \in 1..Len(t.childNodes)}

\* The src values of the IFRAME elements of the page an HTML part holds.
IframeSrcs(part) ==
    {t.src : t \in {u \in TreeNodes(parseDOM(part.data)) : u.tagName = "IFRAME"}}

\* src is a cid: reference to a text/html part of frames: 'cid:' and an id
\* that frames holds, bracketed, with a part of type text/html.
RefersToHtmlFrame(f, src0) == CidReferenceToHtmlFrame(TRUE, f, src0)

\* Every chain of cid: references that starts in the part reaches, within
\* fuel references, an id absent from frames or a part that is not
\* text/html.  A chain longer than the number of frames repeats a frame.
RECURSIVE ChainsEnd(_, _, _)
ChainsEnd(f, part, fuel) ==
    \A src0 \in IframeSrcs(part) :
       RefersToHtmlFrame(f, src0) =>
          /\ fuel > 0
          /\ ChainsEnd(f, assets[f[<<"<">> \o Tail(Val(src0)) \o <<">">>]],
                       fuel - 1)

\* C16: with convertIframes true, convert returns a document whenever every
\* chain of cid: references starting from the index document reaches an id
\* absent from frames or a frame that is not text/html, and never returns a
\* document when a frame refers to itself directly or through a cycle (the
\* recursion goes on until the call stack is exhausted).
C16_ReturnsIffChainsEnd ==
    (/\ call.fn = "convert" /\ ret.done
     /\ call.options.convertIframes
     /\ call.mhtml.index = IndexLocation)
    => (~ret.thrown <=>
           ChainsEnd(call.mhtml.frames,
                     assets[call.mhtml.media[call.mhtml.index]],
                     Cardinality(DOMAIN call.mhtml.frames)))

-----------------------------------------------------------------------------
(* Claims about the end of the input (specification Spec).                  *)

\* C17: for a well-formed archive whose input ends with the closing
\* boundary line and its line terminator, parse reaches END and returns the
\* ParsedDocument whatever the transfer encoding of the last part is.
C17_ReturnsForEveryLastEncoding ==
    (/\ StructurallyValid
     /\ Parts[1].type = "text/html"
     /\ doc.ending = "closed"
     /\ outcome # Running)
    => (outcome = Returned /\ state = MHTML_END)

\* The data URI of the quoted-printable image under the decoder named cs.
SvgDataURI(cs) ==
    convertAssetToDataURI(assets[call.mhtml.media[SvgLocation]], cs).value

\* C18: every activation of convert, the recursive ones for nested frames
\* included, uses the enc given to the outermost call: the quoted-printable
\* image of a nested frame gets the data URI it gets in the top-level
\* document, made with the same decoder.
C18_NestedActivationsUseEnc ==
    call.fn = "convert" =>
        /\ \A n \in 1..Len(calls) : calls[n].enc = call.options.enc
        /\ \A n \in 1..Len(dom) :
              (/\ dom[n].tagName = "IMG"
               /\ Defined(dom[n].src)
               /\ MatchAt(Val(dom[n].src), <<"data:", "image/svg+xml">>, 0))
              => Val(dom[n].src) = SvgDataURI(call.options.enc)

-----------------------------------------------------------------------------
(* Specification SpecCss: replaceReferences applied to archives whose       *)
(* stylesheets refer to stylesheets.                                        *)

CssBody(reference) == <<"b", "url(", reference, ")">>

\* s.css refers to t.css, which refers to the image.
CssChain ==
    <<Asset("base64", "image/png", <<"QUJD">>),
      Asset("quoted-printable", "text/css", CssBody("t.css")),
      Asset("quoted-printable", "text/css", CssBody("img.png"))>>

\* s.css contains a reference that resolves to s.css itself.
CssSelf ==
    <<Asset("base64", "image/png", <<"QUJD">>),
      Asset("quoted-printable", "text/css", CssBody("s.css")),
      Asset("quoted-printable", "text/css", CssBody("img.png"))>>

\* s.css and t.css refer to each other.
CssCycle ==
    <<Asset("base64", "image/png", <<"QUJD">>),
      Asset("quoted-printable", "text/css", CssBody("t.css")),
      Asset("quoted-printable", "text/css", CssBody("s.css"))>>

CssArchives == {CssChain, CssSelf, CssCycle}

CssMedia == RefMedia @@ (<<"t.css">> :> 3)

InitCss ==
    /\ ParseIdle
    /\ ConvIdle
    /\ \E t \in RefTexts, h \in CssArchives :
          call = [fn |-> "replaceReferences", media |-> CssMedia,
                  assets |-> h, base |-> RefBase, asset |-> t]
    /\ ret = NoRet

SpecCss == InitCss /\ [][NextRefs]_vars

\* C19: replaceReferences terminates for every media map and text, also when
\* stylesheets refer to each other in a cycle or a stylesheet refers to
\* itself: the call returns a text, the recursion does not go on until the
\* call stack is exhausted.
C19_TerminatesOnCssCycles ==
    (call.fn = "replaceReferences" /\ ret.done) => ~ret.overflow

-----------------------------------------------------------------------------
(* Specification SpecLive: parse, whose loop goes on while the state is not *)
(* MHTML_END and nothing was thrown or returned.                            *)

Terminated == outcome # Running

\* Weak fairness of the loop, WF_vars(Next), which by definition is
\* []<>~ENABLED <<Next>>_vars \/ []<><<Next>>_vars, with the enabling
\* condition written out: an iteration is possible exactly while parse has
\* neither returned nor thrown.
LoopGoesOn == []<>Terminated \/ []<><<Next>>_vars

SpecLive == Spec /\ LoopGoesOn

\* The values of Content-Transfer-Encoding getLine is called with.
LineEncodings ==
    {Undefined, Some(<<"quoted-printable">>), Some(<<"base64">>),
     Some(<<"binary">>)}

\* Every call of getLine, at any position of the input, throws or returns
\* with the cursor after the position it was called at.
GetLineAdvances ==
    \A p \in 0..Len(mhtml), e \in LineEncodings :
        LET r == getLine(mhtml, p, 0, e, enc)
        IN  r = <<>> \/ r[2] > p

\* Every call of trim throws or returns with the cursor after the position
\* it was called at.
TrimAdvances ==
    \A p \in 0..Len(mhtml) :
        LET t == trim(mhtml, p, 0) IN t = <<>> \/ t[1] > p

\* Every call of trim throws or returns with the cursor at or after the
\* position it was called at.
TrimNeverGoesBack ==
    \A p \in 0..Len(mhtml) :
        LET t == trim(mhtml, p, 0) IN t = <<>> \/ t[1] >= p

\* An iteration of the FSM loop throws or advances the cursor.
IterationAdvances == outcome'.kind = "thrown" \/ i' > i

\* C20 as stated: every iteration of the FSM loop and every call of getLine
\* and of trim strictly advances the cursor i or throws, and parse
\* eventually has returned or thrown.
C20_AsClaimed ==
    /\ [][IterationAdvances]_vars
    /\ [](i = 0 => (GetLineAdvances /\ TrimAdvances))
    /\ <>Terminated

\* C20: every iteration of the FSM loop and every call of getLine (those of
\* the DATA line loop included) strictly advances the cursor i or throws, a
\* call of trim throws or leaves the cursor where it was or further, and
\* parse eventually has returned or thrown.
C20_ParseTerminates ==
    /\ [][IterationAdvances]_vars
    /\ [](i = 0 => (GetLineAdvances /\ TrimNeverGoesBack))
    /\ <>Terminated

\* The body of a part starts at p, right after the empty line that ends the
\* headers of the part, where the CONTENT case calls trim.
BodyStartsAt(p) ==
    /\ p >= 3
    /\ CharAt(mhtml, p - 1) = "\n"
    /\ CharAt(mhtml, p - 2) = "\n"
    /\ CharAt(mhtml, p - 3) # "\n"

\* parse has returned an archive in which trim, called at the start of a
\* body, returned without moving the cursor.
C20_Witness ==
    /\ outcome = Returned
    /\ \E p \in 0..Len(mhtml) :
          BodyStartsAt(p) /\ trim(mhtml, p, 0) = <<p, 0>>

=============================================================================
